---- MODULE Spec2Model ----
(***************************************************************************)
(* Model of the photo-to-line-vectorizer backend: the job store            *)
(* (storage/jobs.py), the job orchestration of services/job_service.py and *)
(* api/endpoints.py, the notification hub of api/websocket.py and the      *)
(* extension coordinator of extensions/base.py, hooks.py and registry.py.  *)
(***************************************************************************)
EXTENDS Integers, Sequences, FiniteSets, TLC

\* ------------------------------------------------------------------------
\* Bounds of the model
\* ------------------------------------------------------------------------
MaxJobs == 1
MaxSvcCalls == 2
MaxRestCalls == 2
MaxChannels == 1
MaxHubJobs == 2
MaxHubChannels == 2
MaxProviders == 2
MaxPrefs == 2
MaxHooks == 3
MaxDiscoverCalls == 3
MaxStoreJobs == 2

\* ------------------------------------------------------------------------
\* Values
\* ------------------------------------------------------------------------
\* Python's None, for the optional string fields of a job record
None == "<None>"

\* api/models.py ProcessingStatus (a StrEnum); .value of each member
PENDING == "pending"
PROCESSING == "processing"
COMPLETED == "completed"
FAILED == "failed"

\* job ids handed out by uuid4, in the order of creation
JobIds == 1..MaxJobs
\* an id string that does not match UUID_PATTERN
BadId == 0
AllIds == JobIds \cup {BadId}

SvcTasks == 1..MaxSvcCalls
Channels == 1..MaxChannels

\* messages an exception raised by the pipeline may carry; str(e) may be empty
ErrMsgs == {"", "disk full"}
\* str(e) of the AttributeError raised by self.processor.process_sync
AttrErrMsg == "'PhotoToLineProcessor' object has no attribute 'process_sync'"
\* str(e) of the OSError raised by output_path.write_text
WriteErrMsg == "cannot write result"

\* the processor handed to JobService.__init__: the repository's
\* PhotoToLineProcessor, or an object that also offers process_sync
ProcessorKinds == {"PhotoToLineProcessor", "ProcessSyncProcessor"}

\* Python truthiness of an optional string (None and "" are falsy)
Truthy(x) == x # None /\ x # ""

\* remove key k from a dict
Remove(f, k) == [x \in DOMAIN f \ {k} |-> f[x]]

\* the record of id j as a set: empty when absent
Lookup(store, j) == IF j \in DOMAIN store THEN {store[j]} ELSE {}

\* ------------------------------------------------------------------------
\* storage/jobs.py  JobStorage
\* ------------------------------------------------------------------------
\* JobStorage.create_job: stores the record under job_id
create_job(store, job_id, status) ==
    (job_id :> [job_id |-> job_id, filename |-> "photo.png",
                input_path |-> job_id,
                output_path |-> None, status |-> status, error |-> None,
                stats |-> None, device_used |-> None]) @@ store

\* JobStorage.update_job: read, dict.update, write back; unknown id: no change
update_job(store, job_id, updates) ==
    IF job_id \notin DOMAIN store
    THEN store
    ELSE [store EXCEPT ![job_id] =
            [f \in DOMAIN store[job_id] |->
                IF f \in DOMAIN updates THEN updates[f] ELSE store[job_id][f]]]

\* JobStorage.set_status: error is written only when truthy
set_status(store, job_id, status, error) ==
    update_job(store, job_id,
        IF Truthy(error)
        THEN [status |-> status, error |-> error]
        ELSE [status |-> status])

\* JobStorage.set_result: output_path and COMPLETED; stats, device if truthy
set_result(store, job_id, output_path, stats, device_used) ==
    update_job(store, job_id,
        [f \in {"output_path", "status"}
              \cup (IF Truthy(stats) THEN {"stats"} ELSE {})
              \cup (IF Truthy(device_used) THEN {"device_used"} ELSE {}) |->
            CASE f = "output_path" -> output_path
              [] f = "status" -> COMPLETED
              [] f = "stats" -> stats
              [] f = "device_used" -> device_used])

\* ------------------------------------------------------------------------
\* api/websocket.py  ConnectionManager
\* ------------------------------------------------------------------------
\* the connections a broadcast iterates over
Subscribed(table, job_id) ==
    IF job_id \in DOMAIN table THEN table[job_id] ELSE << >>

\* ConnectionManager.connect: append to the job's list, creating it
connect(table, ws, job_id) ==
    IF job_id \in DOMAIN table
    THEN [table EXCEPT ![job_id] = Append(@, ws)]
    ELSE (job_id :> << ws >>) @@ table

\* list.remove(x): drops the first occurrence of x
RECURSIVE list_remove(_, _)
list_remove(list, x) ==
    IF list = << >> THEN << >>
    ELSE IF Head(list) = x THEN Tail(list)
    ELSE << Head(list) >> \o list_remove(Tail(list), x)

\* "x in list"
InList(list, x) == \E i \in 1..Len(list) : list[i] = x

\* disconnect without the clean-up of an empty list
disconnect_keeps_empty(table, ws, job_id) ==
    IF job_id \notin DOMAIN table
    THEN table
    ELSE [table EXCEPT ![job_id] = IF InList(@, ws) THEN list_remove(@, ws)
                                   ELSE @]

\* disconnect leaving the table as it is
disconnect_skipped(table, ws, job_id) == table

\* ConnectionManager.disconnect
disconnect(table, ws, job_id) ==
    IF job_id \notin DOMAIN table
    THEN table
    ELSE LET rest == IF InList(table[job_id], ws)
                     THEN list_remove(table[job_id], ws)
                     ELSE table[job_id]
         IN  IF rest = << >>
             THEN Remove(table, job_id)
             ELSE [table EXCEPT ![job_id] = rest]

\* the connections of the list whose send_text raised, in list order
Disconnected(list, failing) == SelectSeq(list, LAMBDA c : c \in failing)

\* removal of every connection collected in `disconnected`
RECURSIVE remove_all(_, _)
remove_all(list, gone) ==
    IF gone = << >> THEN list
    ELSE remove_all(IF InList(list, Head(gone))
                    THEN list_remove(list, Head(gone))
                    ELSE list,
                    Tail(gone))

\* the send loop of a broadcast: one send_text per connection of the list,
\* each inside its own try/except, so a failure does not end the loop
RECURSIVE send_all(_, _)
send_all(list, failing) ==
    IF list = << >> THEN << >>
    ELSE << [ws |-> Head(list), ok |-> Head(list) \notin failing] >>
         \o send_all(Tail(list), failing)

\* broadcast_progress cleaning the list of every job, not only job_id's
broadcast_progress_cleans_every_job(table, job_id, failing) ==
    LET rest(k) == remove_all(table[k], Disconnected(table[k], failing))
    IN  [k \in {x \in DOMAIN table : rest(x) # << >>} |-> rest(k)]

\* ConnectionManager.broadcast_progress: the table after the broadcast
broadcast_progress(table, job_id, failing) ==
    IF job_id \notin DOMAIN table
    THEN table
    ELSE LET rest == remove_all(table[job_id],
                                Disconnected(table[job_id], failing))
         IN  IF rest = << >>
             THEN Remove(table, job_id)
             ELSE [table EXCEPT ![job_id] = rest]

\* ConnectionManager.broadcast_complete: a failed send is only logged
broadcast_complete(table, job_id, failing) == table

\* ConnectionManager.broadcast_error: a failed send is only logged
broadcast_error(table, job_id, failing) == table

\* ------------------------------------------------------------------------
\* State
\* ------------------------------------------------------------------------
VARIABLES
    storage,            \* JobStorage._memory_storage: job id -> record
    nextId,             \* the next id uuid4 hands out
    processor,          \* JobService.processor, fixed at construction
    svc,                \* the JobService.process_job invocations
    background,         \* BackgroundTasks: scheduled process_job runs per job
    active_connections, \* ConnectionManager.active_connections
    chan,               \* each websocket: its state, its job, its loop's turns
    inbox,              \* per websocket: the messages its peer received
    lastBroadcast,      \* the latest broadcast and its sends
    sent,               \* per job: the notifications broadcast so far
    writes,             \* per job: the status values written so far
    outcome,            \* per job: how the latest pipeline run ended
    pipelineRuns,       \* per job: how often the pipeline was invoked
    reg_providers,      \* ExtensionRegistry._providers[cls.name]
    available,          \* the providers whose is_available() is true
    selection,          \* the latest select_provider call and its result
    hooks,              \* AbstractStaticExtension._hooks
    hookRun,            \* the latest execute_hooks call and what it ran
    reg_extensions,     \* ExtensionRegistry._extensions: its keys, in order
    discovered,         \* ExtensionRegistry._discovered
    scans,              \* how often discover() scanned a directory
    discoverCalls,      \* the discover() calls so far: how each ended
    use_redis,          \* JobStorage.use_redis
    redis,              \* the Redis keyspace "job:<id>": value and TTL
    redisUp,            \* whether the Redis server answers
    storeOp,            \* the latest store call, and how __init__ ended
    repo,               \* the JobRepository of the current request
    live,               \* ids created and neither deleted nor expired
    stageRun,           \* the latest stage invocation of an extension
    procRun,            \* the latest PhotoToLineProcessor.process call
    hubProc,            \* ConnectionManager._lock and the broadcasts under way
    twin,               \* one caller's program run on both repositories
    race                \* an update_job call between its read and its write

vars == << storage, nextId, processor, svc, background, active_connections,
           chan, inbox, lastBroadcast, sent, writes, outcome, pipelineRuns,
           reg_providers, available, selection, hooks, hookRun,
           reg_extensions, discovered, scans, discoverCalls,
           use_redis, redis, redisUp, storeOp, repo, live,
           stageRun, procRun, hubProc, twin, race >>

pipeVars == << stageRun, procRun, hubProc, twin, race >>

storeVars == << use_redis, redis, redisUp, storeOp, repo, live >>

regVars == << reg_extensions, discovered, scans, discoverCalls >>

extVars == << reg_providers, available, selection, hooks, hookRun >>

hubVars == << active_connections, chan, inbox >>

\* the websockets whose send_text raises
Failing == {c \in DOMAIN chan : chan[c].st = "dead"}

NoBroadcast ==
    [type |-> "none", job |-> BadId, subscribed |-> << >>, sends |-> << >>,
     after |-> << >>, present |-> FALSE]

\* what one broadcast did: the list it found, its sends, the list it left
BroadcastRecord(type, job_id, tableAfter) ==
    [type |-> type, job |-> job_id,
     subscribed |-> Subscribed(active_connections, job_id),
     sends |-> send_all(Subscribed(active_connections, job_id), Failing),
     after |-> Subscribed(tableAfter, job_id),
     present |-> job_id \in DOMAIN tableAfter]

\* the inboxes after `msg` was sent to each connection of `list`: a send
\* that succeeds delivers it
Delivered(boxes, sends, job_id, msg) ==
    [c \in DOMAIN boxes |->
        IF \E i \in 1..Len(sends) : sends[i].ws = c /\ sends[i].ok
        THEN Append(boxes[c], [job |-> job_id, msg |-> msg])
        ELSE boxes[c]]

ProgressMsg(p) == [type |-> "progress", progress |-> p, error |-> None]
CompleteMsg == [type |-> "complete", progress |-> 100, error |-> None]
ErrorMsg(e) == [type |-> "error", progress |-> -1, error |-> e]

\* the status values a storage write appends to the job's history
Logged(log, store, job_id, statuses) ==
    IF job_id \in DOMAIN store
    THEN [log EXCEPT ![job_id] = @ \o statuses]
    ELSE log

\* no stage was invoked yet; NoReturn stands for a call that raised
NoReturn == "<raised>"
NoStageRun == [called |-> FALSE, trace |-> << >>, raised |-> "none",
               ctx |-> None, ret |-> NoReturn, upto |-> 0]
NoLocals == [image_path |-> << >>, preprocessed |-> << >>, edges |-> << >>,
             edges_inverted |-> << >>, svg_raw |-> << >>,
             svg_optimized |-> << >>, stats |-> << >>]
NoResult == [svg_content |-> << >>, stats |-> << >>]
NoProcRun == [pc |-> "idle", trace |-> << >>, raised |-> FALSE,
              hatching_enabled |-> FALSE, u2net_available |-> FALSE,
              locals |-> NoLocals, result |-> NoResult]

\* the lock is free (owner 0) and no broadcast was called
MaxBroadcasts == 2
Broadcasters == 1..MaxBroadcasts
IdleBroadcast == [pc |-> "idle", type |-> "none", job |-> BadId, idx |-> 0,
                  targets |-> << >>, sends |-> << >>]
NoHubProc == [lock |-> 0, bc |-> [b \in Broadcasters |-> IdleBroadcast]]

\* no Job object built, both repositories empty, no call made
NoTwin == [objects |-> << >>, names |-> << >>, copies |-> << >>,
           _storage |-> << >>, redis |-> << >>,
           last |-> [op |-> "none", id |-> BadId, memory |-> << >>,
                     redis |-> << >>]]

\* no update_job call under way, no id deleted or written back
NoRace == [pc |-> "idle", id |-> BadId, job |-> << >>, deleted |-> {},
           revived |-> {}]

\* the orchestration before the first request
InitJobs ==
    /\ storage = << >>
    /\ nextId = 1
    /\ svc = [t \in SvcTasks |-> [pc |-> "idle", job |-> BadId, code |-> 0,
                                  exc |-> None]]
    /\ background = [j \in JobIds |-> 0]
    /\ sent = [j \in JobIds |-> << >>]
    /\ writes = [j \in JobIds |-> << >>]
    /\ outcome = [j \in JobIds |-> {}]
    /\ pipelineRuns = [j \in JobIds |-> 0]
    /\ stageRun = NoStageRun
    /\ procRun = NoProcRun
    /\ hubProc = NoHubProc
    /\ twin = NoTwin
    /\ race = NoRace

\* the class attributes of ExtensionRegistry before the first discover()
InitRegistry ==
    /\ reg_extensions = << >>
    /\ discovered = FALSE
    /\ scans = 0
    /\ discoverCalls = << >>

NoStoreOp == [op |-> "none", id |-> BadId, ret |-> "none", init |-> "none"]
NoRepo == [redis_url |-> None, kind |-> "none", _storage |-> << >>]

\* a JobStorage on the given backend with nothing stored, no repository
InitStoreVars(useRedis) ==
    /\ use_redis = useRedis
    /\ redis = << >>
    /\ redisUp = TRUE
    /\ storeOp = NoStoreOp
    /\ repo = NoRepo
    /\ live = {}

\* ConnectionManager.__init__ and the websockets not yet connected
InitHub(channels) ==
    /\ active_connections = << >>
    /\ chan = [c \in channels |-> [st |-> "new", job |-> BadId,
                                   exit |-> "none", turns |-> 0,
                                   last |-> "none"]]
    /\ inbox = [c \in channels |-> << >>]
    /\ lastBroadcast = NoBroadcast

NoSelection == [called |-> FALSE, ext |-> "", given |-> FALSE,
                names |-> << >>, raised |-> FALSE,
                provider |-> [extension |-> "", name |-> 0]]
NoHookRun == [called |-> FALSE, ext |-> "", key |-> << "", "" >>,
              upto |-> 0, ran |-> << >>, raised |-> FALSE]

\* the class attributes of registry.py and base.py before discovery
InitExt ==
    /\ reg_providers = << >>
    /\ available = {}
    /\ selection = NoSelection
    /\ hooks = [next |-> 1, table |-> << >>]
    /\ hookRun = NoHookRun

Init ==
    /\ InitJobs
    /\ InitStoreVars(FALSE)
    /\ InitRegistry
    /\ processor \in ProcessorKinds
    /\ InitHub(Channels)
    /\ InitExt

\* ------------------------------------------------------------------------
\* Upload: api/endpoints.py upload_image, JobService.create_job_from_upload
\* ------------------------------------------------------------------------
UploadInputs == {"ok", "no_filename", "bad_suffix", "too_large", "write_fails"}

\* upload_image: the size check raises HTTPException(413) inside the try
\* block, whose `except Exception` turns it into 500
upload_image_code(input) ==
    CASE input = "no_filename" -> 400
      [] input = "bad_suffix" -> 400
      [] input = "too_large" -> 500
      [] input = "write_fails" -> 500
      [] input = "ok" -> 200

\* create_job_from_upload: the size check precedes the try block
create_job_from_upload_code(input) ==
    CASE input = "no_filename" -> 400
      [] input = "bad_suffix" -> 400
      [] input = "too_large" -> 413
      [] input = "write_fails" -> 500
      [] input = "ok" -> 200

\* the effect shared by both upload handlers, answering with `code`
Upload(code) ==
    /\ code = 200 => nextId \in JobIds
    /\ storage' = IF code = 200
                  THEN create_job(storage, nextId, PENDING)
                  ELSE storage
    /\ nextId' = IF code = 200 THEN nextId + 1 ELSE nextId
    /\ writes' = IF code = 200
                 THEN [writes EXCEPT ![nextId] = @ \o << PENDING >>]
                 ELSE writes
    /\ UNCHANGED << processor, regVars, storeVars, pipeVars, svc, background, hubVars, lastBroadcast, extVars, sent,
                    outcome, pipelineRuns >>

RestUpload == \E input \in UploadInputs : Upload(upload_image_code(input))

SvcUpload ==
    \E input \in UploadInputs : Upload(create_job_from_upload_code(input))

\* ------------------------------------------------------------------------
\* services/job_service.py  JobService.process_job
\* ------------------------------------------------------------------------
\* getattr(self.processor, "process_sync"): PhotoToLineProcessor defines
\* __init__, process and process_preset only
HasProcessSync(p) == p # "PhotoToLineProcessor"

\* one broadcast issued by a run of task t, which then continues at `next`
SvcBroadcast(t, pcNow, table, msg, next, code) ==
    /\ svc[t].pc = pcNow
    /\ active_connections' = table
    /\ inbox' = Delivered(inbox,
                          send_all(Subscribed(active_connections, svc[t].job),
                                   Failing),
                          svc[t].job, msg)
    /\ sent' = [sent EXCEPT ![svc[t].job] = Append(@, msg)]
    /\ svc' = [svc EXCEPT ![t].pc = next, ![t].code = code]
    /\ UNCHANGED << storage, nextId, processor, regVars, storeVars, pipeVars, background, chan,
                    lastBroadcast, extVars, writes, outcome, pipelineRuns >>

\* lines 153-163: the HTTPException the guard raises, 0 when it passes
process_job_guard(store, job_id) ==
    IF job_id \notin DOMAIN store THEN 404
    ELSE IF store[job_id].status # PENDING THEN 400
    ELSE 0

\* lines 152-166: the guard and the PROCESSING write, without an await between
SvcProcessJob(t, j) ==
    /\ svc[t].pc = "idle"
    /\ \A u \in SvcTasks : u < t => svc[u].pc # "idle"
    /\ LET code == process_job_guard(storage, j)
       IN  /\ storage' = IF code = 0
                         THEN set_status(storage, j, PROCESSING, None)
                         ELSE storage
           /\ writes' = IF code = 0
                        THEN Logged(writes, storage, j, << PROCESSING >>)
                        ELSE writes
           /\ svc' = [svc EXCEPT ![t] =
                        [pc |-> IF code = 0 THEN "progress10" ELSE "done",
                         job |-> j, code |-> code, exc |-> None]]
    /\ UNCHANGED << nextId, processor, regVars, storeVars, pipeVars, background, hubVars, lastBroadcast, extVars,
                    sent, outcome, pipelineRuns >>

\* lines 171-173
SvcProgress10(t) ==
    SvcBroadcast(t, "progress10",
                 broadcast_progress(active_connections, svc[t].job, Failing),
                 ProgressMsg(10), "progress20", 0)

\* the second milestone announced with the value of the third
SvcProgress20_announces_80(t) ==
    SvcBroadcast(t, "progress20",
                 broadcast_progress(active_connections, svc[t].job, Failing),
                 ProgressMsg(80), "pipeline", 0)

\* lines 178-180
SvcProgress20(t) ==
    SvcBroadcast(t, "progress20",
                 broadcast_progress(active_connections, svc[t].job, Failing),
                 ProgressMsg(20), "pipeline", 0)

\* the except block's write, lines 216-220
SvcFail(t, msg) ==
    /\ storage' = set_status(storage, svc[t].job, FAILED, msg)
    /\ writes' = Logged(writes, storage, svc[t].job, << FAILED >>)
    /\ svc' = [svc EXCEPT ![t].pc = "error", ![t].exc = msg]

\* lines 183-187: the pipeline call returns a result or raises with a message
PipelineOutcomes ==
    {[ok |-> TRUE, msg |-> None]} \cup {[ok |-> FALSE, msg |-> m] : m \in ErrMsgs}

SvcRunPipeline(t) ==
    /\ svc[t].pc = "pipeline"
    /\ IF ~HasProcessSync(processor)
       THEN /\ SvcFail(t, AttrErrMsg)
            /\ UNCHANGED << outcome, pipelineRuns >>
       ELSE \E result \in PipelineOutcomes :
               /\ pipelineRuns' = [pipelineRuns EXCEPT ![svc[t].job] = @ + 1]
               /\ outcome' = [outcome EXCEPT ![svc[t].job] = {result}]
               /\ IF result.ok
                  THEN /\ svc' = [svc EXCEPT ![t].pc = "progress80"]
                       /\ UNCHANGED << storage, writes >>
                  ELSE SvcFail(t, result.msg)
    /\ UNCHANGED << nextId, processor, regVars, storeVars, pipeVars, background, hubVars, lastBroadcast,
                    extVars, sent >>

\* lines 189-191
SvcProgress80(t) ==
    SvcBroadcast(t, "progress80",
                 broadcast_progress(active_connections, svc[t].job, Failing),
                 ProgressMsg(80), "store", 0)

\* lines 194-203: write the file, then set_result; a failed write raises
SvcStoreResult(t) ==
    /\ svc[t].pc = "store"
    /\ \E writeOk \in BOOLEAN :
          IF writeOk
          THEN /\ storage' = set_result(storage, svc[t].job, "result.svg",
                                        "stats", "cpu")
               /\ writes' = Logged(writes, storage, svc[t].job,
                                   << COMPLETED >>)
               /\ svc' = [svc EXCEPT ![t].pc = "complete"]
          ELSE SvcFail(t, WriteErrMsg)
    /\ UNCHANGED << nextId, processor, regVars, storeVars, pipeVars, background, hubVars, lastBroadcast, extVars, sent, outcome, pipelineRuns >>

\* lines 211-214
SvcComplete(t) ==
    SvcBroadcast(t, "complete",
                 broadcast_complete(active_connections, svc[t].job, Failing),
                 CompleteMsg, "done", 200)

\* lines 223-227: broadcast the error, then raise HTTPException(500)
SvcError(t) ==
    SvcBroadcast(t, "error",
                 broadcast_error(active_connections, svc[t].job, Failing),
                 ErrorMsg(svc[t].exc), "done", 500)

\* where a run of process_job is suspended when its task is cancelled: in a
\* send_text of a broadcast that has a subscriber to send to, or in
\* asyncio.to_thread once the thread was started
Suspended(t) ==
    \/ /\ svc[t].pc \in {"progress10", "progress20", "progress80",
                         "complete", "error"}
       /\ Subscribed(active_connections, svc[t].job) # << >>
    \/ /\ svc[t].pc = "pipeline"
       /\ HasProcessSync(processor)

\* the task running process_job is cancelled: the await raises
\* asyncio.CancelledError, a BaseException that neither the broadcast's
\* `except Exception` nor the one of line 216 catches
SvcCancelled(t) ==
    /\ Suspended(t)
    /\ svc' = [svc EXCEPT ![t].pc = "cancelled", ![t].exc = "CancelledError"]
    /\ pipelineRuns' = IF svc[t].pc = "pipeline"
                       THEN [pipelineRuns EXCEPT ![svc[t].job] = @ + 1]
                       ELSE pipelineRuns
    /\ UNCHANGED << storage, nextId, processor, regVars, storeVars, pipeVars,
                    background, hubVars, lastBroadcast, extVars, sent, writes,
                    outcome >>

\* ------------------------------------------------------------------------
\* api/endpoints.py  process_image and its background process_job
\* ------------------------------------------------------------------------
\* validate_job_id: UUID_PATTERN.match
validate_job_id(job_id) == job_id # BadId

\* the stored status is status.value, a plain str: formatting the conflict
\* detail with job['status'].value raises AttributeError, answered as 500
StoredStatusHasValue == FALSE
process_image_conflict_code == IF StoredStatusHasValue THEN 400 ELSE 500

\* process_image, lines 212-255: no write; the run is only scheduled
process_image_code(store, job_id) ==
    IF ~validate_job_id(job_id) THEN 400
    ELSE IF job_id \notin DOMAIN store THEN 404
    ELSE IF store[job_id].status # PENDING THEN process_image_conflict_code
    ELSE 200

RestProcessImage(j) ==
    LET code == process_image_code(storage, j)
    IN  /\ code = 200 => background[j] < MaxRestCalls
        /\ background' = IF code = 200
                         THEN [background EXCEPT ![j] = @ + 1]
                         ELSE background
        /\ UNCHANGED << storage, nextId, processor, regVars, storeVars, pipeVars, svc, hubVars,
                        lastBroadcast, extVars, sent, writes, outcome, pipelineRuns >>

\* process_job, lines 146-186: a coroutine without an await, run after the
\* response was sent; outcome of proc.process and of write_text as inputs
RestProcessJob(j) ==
    /\ background[j] > 0
    /\ background' = [background EXCEPT ![j] = @ - 1]
    /\ IF j \notin DOMAIN storage
       THEN UNCHANGED << storage, writes, outcome, pipelineRuns >>
       ELSE \E result \in PipelineOutcomes, writeOk \in BOOLEAN :
               LET started == set_status(storage, j, PROCESSING, None)
                   msg == IF result.ok THEN WriteErrMsg ELSE result.msg
               IN  /\ pipelineRuns' = [pipelineRuns EXCEPT ![j] = @ + 1]
                   /\ outcome' = [outcome EXCEPT ![j] = {result}]
                   /\ ~result.ok => writeOk
                   /\ IF result.ok /\ writeOk
                      THEN /\ storage' = set_result(started, j, "result.svg",
                                                    "stats", "cpu")
                           /\ writes' = Logged(writes, storage, j,
                                               << PROCESSING, COMPLETED >>)
                      ELSE /\ storage' = set_status(started, j, FAILED, msg)
                           /\ writes' = Logged(writes, storage, j,
                                               << PROCESSING, FAILED >>)
    /\ UNCHANGED << nextId, processor, regVars, storeVars, pipeVars, svc, hubVars, lastBroadcast, extVars,
                    sent >>

\* ------------------------------------------------------------------------
\* api/websocket.py  the life of one websocket
\* ------------------------------------------------------------------------
\* connect sending the new subscriber what was broadcast for the job so far
WsConnect_replays_sent(c, j) ==
    /\ chan[c].st = "new"
    /\ \A d \in DOMAIN chan : d < c => chan[d].st # "new"
    /\ active_connections' = connect(active_connections, c, j)
    /\ chan' = [chan EXCEPT ![c].st = "open", ![c].job = j]
    /\ inbox' = [inbox EXCEPT ![c] =
                    @ \o [i \in 1..Len(sent[j]) |->
                             [job |-> j, msg |-> sent[j][i]]]]
    /\ UNCHANGED << storage, nextId, processor, regVars, storeVars, pipeVars,
                    svc, background, lastBroadcast, extVars, sent, writes,
                    outcome, pipelineRuns >>

\* websocket_endpoint, line 212: accept and register for job_id
WsConnect(c, j) ==
    /\ chan[c].st = "new"
    /\ \A d \in DOMAIN chan : d < c => chan[d].st # "new"
    /\ active_connections' = connect(active_connections, c, j)
    /\ chan' = [chan EXCEPT ![c].st = "open", ![c].job = j]
    /\ UNCHANGED << inbox, storage, nextId, processor, regVars, storeVars, pipeVars, svc, background, lastBroadcast, extVars, sent, writes, outcome, pipelineRuns >>

\* the peer goes away: from now on send_text on this websocket raises
WsPeerGone(c) ==
    /\ chan[c].st = "open"
    /\ chan' = [chan EXCEPT ![c].st = "dead"]
    /\ UNCHANGED << inbox, storage, nextId, processor, regVars, storeVars, pipeVars, svc, background,
                    active_connections, lastBroadcast, extVars, sent,
                    writes, outcome, pipelineRuns >>

\* how the loop of websocket_endpoint can end: receive_text raises
\* WebSocketDisconnect, the keepalive send fails (break), or anything else
\* raises
ExitPaths(st) ==
    IF st = "dead"
    THEN {"keepalive_failed", "exception"}
    ELSE {"client_disconnect", "exception"}

\* websocket_endpoint, lines 233-238: the loop ended, finally: disconnect
WsDisconnect(c) ==
    /\ chan[c].st \in {"open", "dead"}
    /\ active_connections' = disconnect(active_connections, c, chan[c].job)
    /\ \E why \in ExitPaths(chan[c].st) :
          chan' = [chan EXCEPT ![c].st = "closed", ![c].exit = why]
    /\ UNCHANGED << inbox, storage, nextId, processor, regVars, storeVars, pipeVars, svc, background, lastBroadcast, extVars, sent, writes, outcome, pipelineRuns >>

\* ------------------------------------------------------------------------
\* The orchestration: uploads, both start-processing paths, the hub
\* ------------------------------------------------------------------------
SvcStep ==
    \/ \E t \in SvcTasks, j \in AllIds : SvcProcessJob(t, j)
    \/ \E t \in SvcTasks : SvcProgress10(t)
    \/ \E t \in SvcTasks : SvcProgress20(t)
    \/ \E t \in SvcTasks : SvcRunPipeline(t)
    \/ \E t \in SvcTasks : SvcProgress80(t)
    \/ \E t \in SvcTasks : SvcStoreResult(t)
    \/ \E t \in SvcTasks : SvcComplete(t)
    \/ \E t \in SvcTasks : SvcError(t)

RestStep ==
    \/ \E j \in AllIds : RestProcessImage(j)
    \/ \E j \in JobIds : RestProcessJob(j)

WsStep ==
    \/ \E c \in Channels, j \in JobIds : WsConnect(c, j)
    \/ \E c \in Channels : WsPeerGone(c)
    \/ \E c \in Channels : WsDisconnect(c)

Next ==
    \/ RestUpload
    \/ SvcUpload
    \/ SvcStep
    \/ RestStep
    \/ WsStep

Spec == Init /\ [][Next]_vars

\* JobService alone, with the hub it notifies
NextService ==
    \/ SvcUpload
    \/ SvcStep
    \/ WsStep

SpecService == Init /\ [][NextService]_vars

\* the continuation of the run of task t, whichever way its await ends
SvcRun(t) ==
    \/ SvcProgress10(t)
    \/ SvcProgress20(t)
    \/ SvcRunPipeline(t)
    \/ SvcProgress80(t)
    \/ SvcStoreResult(t)
    \/ SvcComplete(t)
    \/ SvcError(t)
    \/ SvcCancelled(t)

\* JobService with task cancellation; the event loop resumes every task
\* that is ready to run
NextServiceFair ==
    \/ SvcUpload
    \/ \E t \in SvcTasks, j \in AllIds : SvcProcessJob(t, j)
    \/ \E t \in SvcTasks : SvcRun(t)
    \/ WsStep

SpecServiceFair ==
    /\ Init
    /\ [][NextServiceFair]_vars
    /\ \A t \in SvcTasks : WF_vars(SvcRun(t))

\* the REST handlers alone, with the websockets the application serves
NextRest ==
    \/ RestUpload
    \/ RestStep
    \/ WsStep

SpecRest == Init /\ [][NextRest]_vars

\* ------------------------------------------------------------------------
\* extensions/base.py  AbstractStaticExtension.select_provider
\* extensions/registry.py  ExtensionRegistry.get_providers
\* ------------------------------------------------------------------------
\* the extensions and the names their provider classes carry
ExtNames == {"vectorize", "optimize"}
ProviderNames == 1..MaxProviders
\* a name no provider class carries
UnknownName == MaxProviders + 1
\* a provider class: its `extension` and `name` class attributes; the
\* vectorize directory holds several PRV_ modules, the optimize directory one
ProviderClasses ==
    {c \in [extension : ExtNames, name : ProviderNames] :
        c.extension = "optimize" => c.name = 1}
\* the None of `next(..., None)`
NoProvider == [extension |-> "", name |-> 0]

\* ExtensionRegistry.get_providers: cls._providers.get(extension_name, [])
get_providers(registry, extension_name) ==
    IF extension_name \in DOMAIN registry
    THEN registry[extension_name]
    ELSE << >>

\* next((p for p in providers if p.name == pref), None)
RECURSIVE find_provider(_, _)
find_provider(providers, pref) ==
    IF providers = << >> THEN NoProvider
    ELSE IF Head(providers).name = pref THEN Head(providers)
    ELSE find_provider(Tail(providers), pref)

\* select_preferred with the loop left after the first preference
select_preferred_first_only(providers, prefs, avail) ==
    IF prefs = << >> THEN NoProvider
    ELSE LET provider == find_provider(providers, Head(prefs))
         IN  IF provider # NoProvider /\ provider \in avail
             THEN provider
             ELSE NoProvider

\* lines 100-103: the first preference naming an available provider
RECURSIVE select_preferred(_, _, _)
select_preferred(providers, prefs, avail) ==
    IF prefs = << >> THEN NoProvider
    ELSE LET provider == find_provider(providers, Head(prefs))
         IN  IF provider # NoProvider /\ provider \in avail
             THEN provider
             ELSE select_preferred(providers, Tail(prefs), avail)

\* first_available without the is_available() test
first_available_unchecked(providers, avail) ==
    IF providers = << >> THEN NoProvider ELSE Head(providers)

\* lines 106-108: the first available provider of the list
RECURSIVE first_available(_, _)
first_available(providers, avail) ==
    IF providers = << >> THEN NoProvider
    ELSE IF Head(providers) \in avail THEN Head(providers)
    ELSE first_available(Tail(providers), avail)

\* select_provider; NoProvider stands for the RuntimeError of line 111.
\* `given` is FALSE when preferences is None
select_provider(providers, given, prefs, avail) ==
    LET preferred == IF given /\ prefs # << >>
                     THEN select_preferred(providers, prefs, avail)
                     ELSE NoProvider
    IN  IF preferred # NoProvider
        THEN preferred
        ELSE first_available(providers, avail)

\* sequences over S of length at most n
RECURSIVE SeqsUpTo(_, _)
SeqsUpTo(S, n) ==
    IF n = 0 THEN {<< >>}
    ELSE LET shorter == SeqsUpTo(S, n - 1)
         IN  shorter \cup {Append(q, x) : q \in shorter, x \in S}

\* the lists discovery can leave for one extension: its own provider
\* classes, each at most once, in any order
ProviderLists(e) ==
    {q \in SeqsUpTo({c \in ProviderClasses : c.extension = e}, MaxProviders) :
        \A i, k \in 1..Len(q) : i # k => q[i] # q[k]}

\* the preference lists a caller may pass
PreferenceLists == SeqsUpTo(ProviderNames \cup {UnknownName}, MaxPrefs)

\* cls.select_provider(preferences) of the extension named e
SelectProvider(e, given, prefs) ==
    /\ given \/ prefs = << >>
    /\ LET provider == select_provider(get_providers(reg_providers, e),
                                       given, prefs, available)
       IN  selection' = [called |-> TRUE, ext |-> e, given |-> given,
                         names |-> prefs,
                         raised |-> provider = NoProvider,
                         provider |-> provider]
    /\ UNCHANGED << storage, nextId, processor, regVars, storeVars, pipeVars, svc, background, hubVars,
                    lastBroadcast, sent, writes, outcome, pipelineRuns,
                    reg_providers, available, hooks, hookRun >>

InitSelect ==
    /\ InitJobs
    /\ InitStoreVars(FALSE)
    /\ reg_extensions = << "optimize", "vectorize" >>
    /\ discovered = TRUE
    /\ scans = 1
    /\ discoverCalls = << "scanned" >>
    /\ processor = "PhotoToLineProcessor"
    /\ InitHub(Channels)
    /\ reg_providers \in [ExtNames -> UNION {ProviderLists(e) : e \in ExtNames}]
    /\ \A e \in ExtNames : reg_providers[e] \in ProviderLists(e)
    /\ available \in SUBSET ProviderClasses
    /\ selection = NoSelection
    /\ hooks = [next |-> 1, table |-> << >>]
    /\ hookRun = NoHookRun

NextSelect ==
    \E e \in ExtNames, given \in BOOLEAN, prefs \in PreferenceLists :
        SelectProvider(e, given, prefs)

SpecSelect == InitSelect /\ [][NextSelect]_vars

\* ------------------------------------------------------------------------
\* extensions/hooks.py  hook;  extensions/base.py  execute_hooks
\* ------------------------------------------------------------------------
\* the (stage, timing) keys hooks are registered under
HookKeys == {<< "vectorize", "before" >>, << "vectorize", "after" >>}
Priorities == {10, 50, 90}

\* hook(extension_class, stage, timing, priority)(func): no extension class
\* defines _hooks of its own, so the entry goes to the one dict of
\* AbstractStaticExtension; func is the next function registered
hook(table, hook_key, priority, func) ==
    IF hook_key \in DOMAIN table
    THEN [table EXCEPT ![hook_key] = Append(@, [priority |-> priority,
                                                func |-> func])]
    ELSE (hook_key :> << [priority |-> priority, func |-> func] >>) @@ table

\* insert_sorted placing x in front of the entries of equal priority
RECURSIVE insert_sorted_unstable(_, _)
insert_sorted_unstable(list, x) ==
    IF list = << >> THEN << x >>
    ELSE IF x.priority <= Head(list).priority THEN << x >> \o list
    ELSE << Head(list) >> \o insert_sorted_unstable(Tail(list), x)

\* one step of sorted(..., key=lambda x: x[0]): x goes behind every entry
\* whose priority is not greater than its own
RECURSIVE insert_sorted(_, _)
insert_sorted(list, x) ==
    IF list = << >> THEN << x >>
    ELSE IF x.priority < Head(list).priority THEN << x >> \o list
    ELSE << Head(list) >> \o insert_sorted(Tail(list), x)

\* sorted(cls._hooks[hook_key], key=lambda x: x[0]): a stable sort
RECURSIVE sorted(_)
sorted(list) ==
    IF list = << >> THEN << >>
    ELSE insert_sorted(sorted(SubSeq(list, 1, Len(list) - 1)),
                       list[Len(list)])

\* run_hooks calling the remaining handlers after one has raised
RECURSIVE run_hooks_to_end(_)
run_hooks_to_end(list) ==
    IF list = << >> THEN [ran |-> << >>, raised |-> FALSE]
    ELSE LET rest == run_hooks_to_end(Tail(list))
         IN  [ran |-> << Head(list).func.id >> \o rest.ran,
              raised |-> Head(list).func.raises \/ rest.raised]

\* lines 132-133: call each handler in turn; an exception ends the loop
RECURSIVE run_hooks(_)
run_hooks(list) ==
    IF list = << >> THEN [ran |-> << >>, raised |-> FALSE]
    ELSE IF Head(list).func.raises
    THEN [ran |-> << Head(list).func.id >>, raised |-> TRUE]
    ELSE LET rest == run_hooks(Tail(list))
         IN  [ran |-> << Head(list).func.id >> \o rest.ran,
              raised |-> rest.raised]

\* execute_hooks(stage, timing, context)
execute_hooks(table, hook_key) ==
    IF hook_key \notin DOMAIN table
    THEN [ran |-> << >>, raised |-> FALSE]
    ELSE run_hooks(sorted(table[hook_key]))

\* @hook(e, stage, timing, priority) applied to a handler
HookRegister(e, hook_key, priority, raises) ==
    /\ hooks.next <= MaxHooks
    /\ hooks' = [next |-> hooks.next + 1,
                 table |-> hook(hooks.table, hook_key, priority,
                                [id |-> hooks.next, raises |-> raises])]
    /\ UNCHANGED << storage, nextId, processor, regVars, storeVars, pipeVars, svc, background, hubVars,
                    lastBroadcast, sent, writes, outcome, pipelineRuns,
                    reg_providers, available, selection, hookRun >>

\* e.execute_hooks(stage, timing, context)
ExecuteHooks(e, hook_key) ==
    /\ LET run == execute_hooks(hooks.table, hook_key)
       IN  hookRun' = [called |-> TRUE, ext |-> e, key |-> hook_key,
                       upto |-> hooks.next - 1,
                       ran |-> run.ran, raised |-> run.raised]
    /\ UNCHANGED << storage, nextId, processor, regVars, storeVars, pipeVars, svc, background, hubVars,
                    lastBroadcast, sent, writes, outcome, pipelineRuns,
                    reg_providers, available, selection, hooks >>

InitHooks ==
    /\ InitJobs
    /\ InitStoreVars(FALSE)
    /\ InitRegistry
    /\ processor = "PhotoToLineProcessor"
    /\ InitHub(Channels)
    /\ InitExt

NextHooks ==
    \/ \E e \in ExtNames, k \in HookKeys, p \in Priorities, r \in BOOLEAN :
          HookRegister(e, k, p, r)
    \/ \E e \in ExtNames, k \in HookKeys : ExecuteHooks(e, k)

SpecHooks == InitHooks /\ [][NextHooks]_vars

\* ------------------------------------------------------------------------
\* api/websocket.py  the hub under arbitrary connects and broadcasts
\* ------------------------------------------------------------------------
HubJobIds == 1..MaxHubJobs
HubChannels == 1..MaxHubChannels

\* one broadcast of the hub, leaving `table`
HubBroadcast(type, j, table) ==
    /\ active_connections' = table
    /\ lastBroadcast' = BroadcastRecord(type, j, table)
    /\ UNCHANGED << storage, nextId, processor, regVars, storeVars, pipeVars, svc, background, chan, inbox,
                    sent, writes, outcome, pipelineRuns, extVars >>

HubBroadcastProgress(j) ==
    HubBroadcast("progress", j,
                 broadcast_progress(active_connections, j, Failing))

HubBroadcastComplete(j) ==
    HubBroadcast("complete", j,
                 broadcast_complete(active_connections, j, Failing))

HubBroadcastError(j) ==
    HubBroadcast("error", j,
                 broadcast_error(active_connections, j, Failing))

InitHubOnly ==
    /\ InitJobs
    /\ InitStoreVars(FALSE)
    /\ InitRegistry
    /\ processor = "PhotoToLineProcessor"
    /\ InitHub(HubChannels)
    /\ InitExt

NextHub ==
    \/ \E c \in HubChannels, j \in HubJobIds : WsConnect(c, j)
    \/ \E c \in HubChannels : WsPeerGone(c)
    \/ \E c \in HubChannels : WsDisconnect(c)
    \/ \E j \in HubJobIds : HubBroadcastProgress(j)
    \/ \E j \in HubJobIds : HubBroadcastComplete(j)
    \/ \E j \in HubJobIds : HubBroadcastError(j)

SpecHub == InitHubOnly /\ [][NextHub]_vars

\* ------------------------------------------------------------------------
\* extensions/registry.py  ExtensionRegistry.discover
\* ------------------------------------------------------------------------
\* every variable outside the registry
notRegVars ==
    << storage, nextId, processor, storeVars, pipeVars, svc, background,
       hubVars, lastBroadcast, sent, writes, outcome, pipelineRuns, available,
       selection, hooks, hookRun >>

\* one extension directory: the name of the extension class its EXT_ file
\* defines, whether that file loads, the provider classes its loadable
\* PRV_ files define for the extension, and whether one of those files
\* also defines an AbstractProvider subclass without the `extension`
\* class attribute (base.py declares it by annotation only)
ExtDirs ==
    UNION {[name : {e}, loads : BOOLEAN, providers : ProviderLists(e),
            bare_provider : BOOLEAN] :
              e \in ExtNames}

\* what extensions_dir.iterdir() can list: directories of different
\* extensions, in any order
DirListings ==
    {q \in SeqsUpTo(ExtDirs, Cardinality(ExtNames)) :
        \A i, k \in 1..Len(q) : i # k => q[i].name # q[k].name}

\* _discover_providers: `obj.extension == ext_name` of line 129 raises
\* AttributeError on a provider class without the attribute, and nothing
\* on the way up to discover() catches it
discover_providers(ext_dir) ==
    IF ext_dir.bare_provider
    THEN [raised |-> TRUE, providers |-> << >>]
    ELSE [raised |-> FALSE, providers |-> ext_dir.providers]

\* _discover_extension: register the class, then its providers if any
discover_extension(tables, ext_dir) ==
    IF ~ext_dir.loads
    THEN tables
    ELSE LET found == discover_providers(ext_dir)
         IN  [extensions |->
                  IF InList(tables.extensions, ext_dir.name)
                  THEN tables.extensions
                  ELSE Append(tables.extensions, ext_dir.name),
              providers |->
                  IF found.providers # << >>
                  THEN (ext_dir.name :> found.providers) @@ tables.providers
                  ELSE tables.providers,
              raised |-> found.raised]

\* lines 53-60: the loop over the directories of extensions_dir, left by
\* the first exception
RECURSIVE scan(_, _)
scan(tables, listing) ==
    IF listing = << >> \/ tables.raised THEN tables
    ELSE scan(discover_extension(tables, Head(listing)), Tail(listing))

\* discover() without the _discovered test of lines 43-44
discover_rescan(reg, listing) ==
    LET tables == scan([extensions |-> reg.extensions,
                        providers |-> reg.providers,
                        raised |-> FALSE], listing)
    IN  [extensions |-> tables.extensions, providers |-> tables.providers,
         discovered |-> reg.discovered \/ ~tables.raised,
         scans |-> reg.scans + 1, raised |-> tables.raised]

\* discover(extensions_dir): the registry it leaves
discover(reg, listing) ==
    IF reg.discovered
    THEN reg
    ELSE LET tables == scan([extensions |-> reg.extensions,
                             providers |-> reg.providers,
                             raised |-> FALSE], listing)
         IN  [extensions |-> tables.extensions,
              providers |-> tables.providers,
              discovered |-> ~tables.raised, scans |-> reg.scans + 1,
              raised |-> tables.raised]

\* ExtensionRegistry.discover(extensions_dir); a directory that does not
\* exist makes iterdir raise before anything is registered
Discover(exists, listing) ==
    /\ Len(discoverCalls) < MaxDiscoverCalls
    /\ LET reg == [extensions |-> reg_extensions,
                   providers |-> reg_providers,
                   discovered |-> discovered, scans |-> scans,
                   raised |-> FALSE]
           after == IF exists \/ discovered THEN discover(reg, listing)
                    ELSE reg
       IN  /\ discoverCalls' = Append(discoverCalls,
                                      IF discovered THEN "skipped"
                                      ELSE IF exists /\ ~after.raised
                                      THEN "scanned"
                                      ELSE "raised")
           /\ reg_extensions' = after.extensions
           /\ reg_providers' = after.providers
           /\ discovered' = after.discovered
           /\ scans' = after.scans
    /\ UNCHANGED notRegVars

NextDiscover ==
    \E exists \in BOOLEAN, listing \in DirListings : Discover(exists, listing)

SpecDiscover == Init /\ [][NextDiscover]_vars

\* ------------------------------------------------------------------------
\* storage/jobs.py  JobStorage on its two backends
\* ------------------------------------------------------------------------
StoreIds == 1..MaxStoreJobs
RedisUrl == "redis://localhost:6379/0"

\* 86400 * 7: the seconds handed to setex
TTL == 86400 * 7
\* the spans of time that pass between two calls
ElapseSteps == {TTL \div 2}

\* every variable the stores do not touch
notStoreVars ==
    << nextId, processor, svc, background, hubVars, lastBroadcast, sent,
       writes, outcome, pipelineRuns, extVars, regVars, pipeVars >>

\* redis_client.setex(key, seconds, value)
setex(db, key, seconds, value) ==
    (key :> [data |-> value, ttl |-> seconds]) @@ db

\* the values of the keyspace, as redis_client.get and json.loads read them
Data(db) == [k \in DOMAIN db |-> db[k].data]

\* the keyspace after `seconds` have passed: keys whose TTL ran out are gone
elapse(db, seconds) ==
    [k \in {x \in DOMAIN db : db[x].ttl > seconds} |->
        [data |-> db[k].data, ttl |-> db[k].ttl - seconds]]

\* JobStorage.__init__: Redis is used when asked for, a URL is given and
\* the ping succeeds; a failed connection falls back to the dict
JobStorage_init(redis_url, useRedis, connectOk) ==
    LET wanted == useRedis /\ redis_url # None
    IN  [use_redis |-> wanted /\ connectOk,
         fell_back |-> wanted /\ ~connectOk]

\* the records of the backend the instance uses
Records(st) == IF st.use_redis THEN Data(st.redis) ELSE st.memory

\* create_job with both branches writing to the dict
JobStorage_create_job_memory_only(st, job_id, status) ==
    [memory |-> create_job(st.memory, job_id, status), redis |-> st.redis,
     ret |-> "none"]

\* JobStorage.create_job, lines 88-96
JobStorage_create_job(st, job_id, status) ==
    IF st.use_redis
    THEN [memory |-> st.memory,
          redis |-> setex(st.redis, job_id, TTL,
                          create_job(<< >>, job_id, status)[job_id]),
          ret |-> "none"]
    ELSE [memory |-> create_job(st.memory, job_id, status),
          redis |-> st.redis, ret |-> "none"]

\* JobStorage.get_job
JobStorage_get_job(st, job_id) ==
    [memory |-> st.memory, redis |-> st.redis,
     ret |-> IF job_id \in DOMAIN Records(st) THEN "found" ELSE "absent"]

\* write_back with a setex that keeps the remaining TTL of the key
write_back_keep_ttl(st, job_id, updated) ==
    IF job_id \notin DOMAIN Records(st)
    THEN [memory |-> st.memory, redis |-> st.redis, ret |-> "false"]
    ELSE IF st.use_redis
    THEN [memory |-> st.memory,
          redis |-> setex(st.redis, job_id, st.redis[job_id].ttl,
                          updated[job_id]),
          ret |-> "true"]
    ELSE [memory |-> updated, redis |-> st.redis, ret |-> "true"]

\* update_job, lines 129-145: False for an unknown id, else the updated
\* record is written back to the backend; `updated` are the records after
\* dict.update
write_back(st, job_id, updated) ==
    IF job_id \notin DOMAIN Records(st)
    THEN [memory |-> st.memory, redis |-> st.redis, ret |-> "false"]
    ELSE IF st.use_redis
    THEN [memory |-> st.memory,
          redis |-> setex(st.redis, job_id, TTL, updated[job_id]),
          ret |-> "true"]
    ELSE [memory |-> updated, redis |-> st.redis, ret |-> "true"]

\* JobStorage.update_job
JobStorage_update_job(st, job_id, updates) ==
    write_back(st, job_id, update_job(Records(st), job_id, updates))

\* JobStorage.set_status
JobStorage_set_status(st, job_id, status, error) ==
    write_back(st, job_id, set_status(Records(st), job_id, status, error))

\* JobStorage.set_result
JobStorage_set_result(st, job_id, output_path, stats, device_used) ==
    write_back(st, job_id,
               set_result(Records(st), job_id, output_path, stats,
                          device_used))

\* delete_job answering True whether or not the id was stored
JobStorage_delete_job_always_true(st, job_id) ==
    IF st.use_redis
    THEN [memory |-> st.memory, redis |-> Remove(st.redis, job_id),
          ret |-> "true"]
    ELSE [memory |-> Remove(st.memory, job_id), redis |-> st.redis,
          ret |-> "true"]

\* JobStorage.delete_job
JobStorage_delete_job(st, job_id) ==
    IF job_id \notin DOMAIN Records(st)
    THEN [memory |-> st.memory, redis |-> st.redis, ret |-> "false"]
    ELSE IF st.use_redis
    THEN [memory |-> st.memory, redis |-> Remove(st.redis, job_id),
          ret |-> "true"]
    ELSE [memory |-> Remove(st.memory, job_id), redis |-> st.redis,
          ret |-> "true"]

\* JobStorage.exists
JobStorage_exists(st, job_id) ==
    [memory |-> st.memory, redis |-> st.redis,
     ret |-> IF job_id \in DOMAIN Records(st) THEN "true" ELSE "false"]

\* the JobStorage instance as the operators above take it
ThisStore == [use_redis |-> use_redis, memory |-> storage, redis |-> redis]

\* the ids whose record is retrievable after a call
LiveAfter(op, job_id, ret, db) ==
    IF op = "create_job" /\ ret # "raised" THEN live \cup {job_id}
    ELSE IF op = "delete_job" /\ ret = "true" THEN live \ {job_id}
    ELSE live

\* one call of a JobStorage method; with Redis chosen and the server not
\* answering, the call raises and nothing is written
StoreCall(op, job_id, result) ==
    LET down == use_redis /\ ~redisUp
        ret == IF down THEN "raised" ELSE result.ret
    IN  /\ storage' = IF down THEN storage ELSE result.memory
        /\ redis' = IF down THEN redis ELSE result.redis
        /\ storeOp' = [op |-> op, id |-> job_id, ret |-> ret,
                       init |-> storeOp.init]
        /\ live' = LiveAfter(op, job_id, ret, redis)
        /\ UNCHANGED << use_redis, redisUp, repo >>
        /\ UNCHANGED notStoreVars

UpdateDicts == {[error |-> "disk full"], [status |-> PROCESSING]}

StoreCreate(j) ==
    StoreCall("create_job", j, JobStorage_create_job(ThisStore, j, PENDING))

StoreGet(j) == StoreCall("get_job", j, JobStorage_get_job(ThisStore, j))

StoreUpdate(j, updates) ==
    StoreCall("update_job", j, JobStorage_update_job(ThisStore, j, updates))

StoreSetStatus(j, status, error) ==
    StoreCall("set_status", j,
              JobStorage_set_status(ThisStore, j, status, error))

StoreSetResult(j) ==
    StoreCall("set_result", j,
              JobStorage_set_result(ThisStore, j, "result.svg", "stats",
                                    "cpu"))

StoreDelete(j) ==
    StoreCall("delete_job", j, JobStorage_delete_job(ThisStore, j))

StoreExists(j) == StoreCall("exists", j, JobStorage_exists(ThisStore, j))

\* time passes: keys whose TTL runs out disappear from Redis
RedisElapse(seconds) ==
    /\ redis # << >>
    /\ redis' = elapse(redis, seconds)
    /\ live' = {j \in live : j \in DOMAIN elapse(redis, seconds)}
    /\ storeOp' = [op |-> "elapse", id |-> BadId, ret |-> "none",
                   init |-> storeOp.init]
    /\ UNCHANGED << storage, use_redis, redisUp, repo >>
    /\ UNCHANGED notStoreVars

\* the Redis server stops or starts answering
RedisOutage ==
    /\ redisUp' = ~redisUp
    /\ storeOp' = [op |-> IF redisUp THEN "outage" ELSE "recovery",
                   id |-> BadId, ret |-> "none", init |-> storeOp.init]
    /\ UNCHANGED << storage, use_redis, redis, repo, live >>
    /\ UNCHANGED notStoreVars

\* init_job_storage(redis_url): the instance main.py creates
InitStore ==
    /\ InitJobs
    /\ InitRegistry
    /\ processor = "PhotoToLineProcessor"
    /\ InitHub(Channels)
    /\ InitExt
    /\ \E redis_url \in {None, RedisUrl},
          connectOk \in BOOLEAN :
          LET made == JobStorage_init(redis_url, TRUE, connectOk)
          IN  /\ use_redis = made.use_redis
              /\ redisUp = connectOk
              /\ storeOp = [op |-> "init", id |-> BadId, ret |-> "none",
                            init |-> IF made.fell_back THEN "fallback"
                                     ELSE IF made.use_redis THEN "redis"
                                     ELSE "memory"]
    /\ redis = << >>
    /\ repo = NoRepo
    /\ live = {}

NextStore ==
    \/ \E j \in StoreIds : StoreCreate(j)
    \/ \E j \in StoreIds : StoreGet(j)
    \/ \E j \in StoreIds, updates \in UpdateDicts : StoreUpdate(j, updates)
    \/ \E j \in StoreIds, status \in {PROCESSING, FAILED},
          error \in {None} \cup ErrMsgs : StoreSetStatus(j, status, error)
    \/ \E j \in StoreIds : StoreSetResult(j)
    \/ \E j \in StoreIds : StoreDelete(j)
    \/ \E j \in StoreIds : StoreExists(j)
    \/ \E seconds \in ElapseSteps : RedisElapse(seconds)
    \/ RedisOutage

SpecStore == InitStore /\ [][NextStore]_vars

\* ------------------------------------------------------------------------
\* repositories/job_repository.py, dependencies.py  get_job_repository
\* ------------------------------------------------------------------------
\* a member of the ProcessingStatus enum, as opposed to its str value
Enum(value) == [value |-> value]

\* the Job objects a caller passes for id j
Jobs(j) ==
    {[job_id |-> j, filename |-> "photo.png", input_path |-> j,
      output_path |-> None, status |-> Enum(PENDING), error |-> None,
      stats |-> None, device_used |-> None],
     [job_id |-> j, filename |-> "photo.png", input_path |-> j,
      output_path |-> None, status |-> Enum(FAILED), error |-> "disk full",
      stats |-> None, device_used |-> None],
     [job_id |-> j, filename |-> "photo.png", input_path |-> j,
      output_path |-> "result.svg", status |-> Enum(COMPLETED),
      error |-> None, stats |-> "stats", device_used |-> "cpu"]}

\* Job.to_dict
to_dict(job) ==
    [job_id |-> job.job_id, filename |-> job.filename,
     input_path |-> job.input_path,
     output_path |-> IF Truthy(job.output_path) THEN job.output_path
                     ELSE None,
     status |-> job.status.value, error |-> job.error, stats |-> job.stats,
     device_used |-> job.device_used]

\* Job.from_dict
from_dict(data) ==
    [job_id |-> data.job_id, filename |-> data.filename,
     input_path |-> data.input_path,
     output_path |-> IF Truthy(data.output_path) THEN data.output_path
                     ELSE None,
     status |-> Enum(data.status), error |-> data.error,
     stats |-> data.stats, device_used |-> data.device_used]

\* get_job_repository(): a RedisJobRepository when a URL is configured and
\* the ping succeeds, else a new InMemoryJobRepository
get_job_repository(redis_url, connectOk) ==
    IF redis_url # None /\ connectOk
    THEN [redis_url |-> redis_url, kind |-> "redis", _storage |-> << >>]
    ELSE [redis_url |-> redis_url, kind |-> "memory", _storage |-> << >>]

\* the Job objects get_by_id returns, by id
RepoJobs(r, db) ==
    IF r.kind = "redis"
    THEN [k \in DOMAIN db |-> from_dict(db[k].data)]
    ELSE r._storage

\* create overwriting a job that exists
repo_create_overwrite(r, db, job) ==
    IF r.kind = "redis"
    THEN [_storage |-> r._storage,
          redis |-> setex(db, job.job_id, TTL, to_dict(job)),
          ret |-> "none"]
    ELSE [_storage |-> (job.job_id :> job) @@ r._storage, redis |-> db,
          ret |-> "none"]

\* RedisJobRepository.create, InMemoryJobRepository.create
repo_create(r, db, job) ==
    IF job.job_id \in DOMAIN RepoJobs(r, db)
    THEN [_storage |-> r._storage, redis |-> db, ret |-> "raised"]
    ELSE IF r.kind = "redis"
    THEN [_storage |-> r._storage,
          redis |-> setex(db, job.job_id, TTL, to_dict(job)),
          ret |-> "none"]
    ELSE [_storage |-> (job.job_id :> job) @@ r._storage, redis |-> db,
          ret |-> "none"]

\* RedisJobRepository.get_by_id, InMemoryJobRepository.get_by_id
repo_get_by_id(r, db, job_id) ==
    [_storage |-> r._storage, redis |-> db,
     ret |-> IF job_id \in DOMAIN RepoJobs(r, db) THEN "found" ELSE "absent"]

\* RedisJobRepository.update, InMemoryJobRepository.update
repo_update(r, db, job) ==
    IF job.job_id \notin DOMAIN RepoJobs(r, db)
    THEN [_storage |-> r._storage, redis |-> db, ret |-> "false"]
    ELSE IF r.kind = "redis"
    THEN [_storage |-> r._storage,
          redis |-> setex(db, job.job_id, TTL, to_dict(job)),
          ret |-> "true"]
    ELSE [_storage |-> (job.job_id :> job) @@ r._storage, redis |-> db,
          ret |-> "true"]

\* RedisJobRepository.delete, InMemoryJobRepository.delete
repo_delete(r, db, job_id) ==
    IF job_id \notin DOMAIN RepoJobs(r, db)
    THEN [_storage |-> r._storage, redis |-> db, ret |-> "false"]
    ELSE IF r.kind = "redis"
    THEN [_storage |-> r._storage, redis |-> Remove(db, job_id),
          ret |-> "true"]
    ELSE [_storage |-> Remove(r._storage, job_id), redis |-> db,
          ret |-> "true"]

\* RedisJobRepository.exists, InMemoryJobRepository.exists
repo_exists(r, db, job_id) ==
    [_storage |-> r._storage, redis |-> db,
     ret |-> IF job_id \in DOMAIN RepoJobs(r, db) THEN "true" ELSE "false"]

\* a request obtains its repository: Depends(get_job_repository)
RepoRequest ==
    /\ repo' = get_job_repository(repo.redis_url, redisUp)
    /\ storeOp' = [op |-> "get_job_repository", id |-> BadId,
                   ret |-> repo'.kind, init |-> storeOp.init]
    /\ UNCHANGED << storage, use_redis, redis, redisUp, live >>
    /\ UNCHANGED notStoreVars

\* one call of a method of the request's repository; a RedisJobRepository
\* whose server does not answer raises
RepoCall(op, job_id, result) ==
    LET down == repo.kind = "redis" /\ ~redisUp
        ret == IF down THEN "raised" ELSE result.ret
    IN  /\ repo.kind # "none"
        /\ repo' = IF down THEN repo
                   ELSE [repo EXCEPT !._storage = result._storage]
        /\ redis' = IF down THEN redis ELSE result.redis
        /\ storeOp' = [op |-> op, id |-> job_id, ret |-> ret,
                       init |-> storeOp.init]
        /\ live' = IF op = "create" /\ ret = "none" THEN live \cup {job_id}
                   ELSE IF op = "delete" /\ ret = "true"
                   THEN live \ {job_id}
                   ELSE live
        /\ UNCHANGED << storage, use_redis, redisUp >>
        /\ UNCHANGED notStoreVars

RepoCreate(job) ==
    RepoCall("create", job.job_id, repo_create(repo, redis, job))

RepoGet(j) == RepoCall("get_by_id", j, repo_get_by_id(repo, redis, j))

RepoUpdate(job) ==
    RepoCall("update", job.job_id, repo_update(repo, redis, job))

RepoDelete(j) == RepoCall("delete", j, repo_delete(repo, redis, j))

RepoExists(j) == RepoCall("exists", j, repo_exists(repo, redis, j))

\* the application with settings.redis_url set or not, before any request
InitRepo ==
    /\ InitJobs
    /\ InitRegistry
    /\ processor = "PhotoToLineProcessor"
    /\ InitHub(Channels)
    /\ InitExt
    /\ use_redis = FALSE
    /\ redis = << >>
    /\ redisUp \in BOOLEAN
    /\ storeOp = NoStoreOp
    /\ repo \in {[NoRepo EXCEPT !.redis_url = url] : url \in {None, RedisUrl}}
    /\ live = {}

NextRepo ==
    \/ RepoRequest
    \/ \E j \in StoreIds : \E job \in Jobs(j) : RepoCreate(job)
    \/ \E j \in StoreIds : RepoGet(j)
    \/ \E j \in StoreIds : \E job \in Jobs(j) : RepoUpdate(job)
    \/ \E j \in StoreIds : RepoDelete(j)
    \/ \E j \in StoreIds : RepoExists(j)
    \/ \E seconds \in ElapseSteps : RedisElapse(seconds)
    \/ RedisOutage

SpecRepo == InitRepo /\ [][NextRepo]_vars

\* ========================================================================
\* Properties
\* ========================================================================
\* the provider classes registered for extension e
Registered(e) ==
    {get_providers(reg_providers, e)[i] :
        i \in 1..Len(get_providers(reg_providers, e))}

Min(S) == CHOOSE x \in S : \A y \in S : x <= y

\* C7: select_provider returns the provider named by the first preference
\* that names a registered, available provider of the extension; when no
\* preference qualifies, or none is given, it returns the first available
\* provider in the registry's order.
C7_SelectProviderFollowsPreferences ==
    selection.called =>
        LET provs == get_providers(reg_providers, selection.ext)
            prefs == selection.names
            qualifying == {i \in 1..Len(prefs) :
                              \E c \in Registered(selection.ext) :
                                  c.name = prefs[i] /\ c \in available}
            usable == {i \in 1..Len(provs) : provs[i] \in available}
        IN  IF qualifying # {}
            THEN /\ ~selection.raised
                 /\ selection.provider \in Registered(selection.ext)
                 /\ selection.provider.name = prefs[Min(qualifying)]
            ELSE usable # {} =>
                    /\ ~selection.raised
                    /\ selection.provider = provs[Min(usable)]

\* preferences [b, a] with only a available (both registered) returned a
C7_Witness ==
    /\ selection.called
    /\ selection.ext = "vectorize"
    /\ selection.names = << 2, 1 >>
    /\ Len(reg_providers["vectorize"]) = 2
    /\ available = {[extension |-> "vectorize", name |-> 1]}
    /\ selection.provider = [extension |-> "vectorize", name |-> 1]

\* C8: select_provider raises exactly when no registered provider of the
\* extension is available; a returned provider is registered for that
\* extension and available.
C8_SelectProviderRaisesIffNoneAvailable ==
    selection.called =>
        /\ selection.raised <=> Registered(selection.ext) \cap available = {}
        /\ ~selection.raised =>
              /\ selection.provider \in Registered(selection.ext)
              /\ selection.provider \in available

\* the call raised although providers are registered, and another
\* extension's provider is available
C8_Witness ==
    /\ selection.called
    /\ selection.raised
    /\ selection.ext = "vectorize"
    /\ Registered("vectorize") # {}
    /\ [extension |-> "optimize", name |-> 1] \in available

\* the hooks registered under the key of the latest execute_hooks call
\* when it was made
RegisteredHooks ==
    IF hookRun.key \in DOMAIN hooks.table
    THEN SelectSeq(hooks.table[hookRun.key],
                   LAMBDA h : h.func.id <= hookRun.upto)
    ELSE << >>

\* handler a runs before handler b: lower priority first, registration
\* order among equals
RunsBefore(regs, a, b) ==
    \E i, k \in 1..Len(regs) :
        /\ regs[i].func.id = a
        /\ regs[k].func.id = b
        /\ \/ regs[i].priority < regs[k].priority
           \/ regs[i].priority = regs[k].priority /\ i < k

\* C9: execute_hooks runs the handlers of its key in ascending priority,
\* equal priorities in registration order, none twice; a call that returns
\* has run every handler of the key.
C9_HooksRunInPriorityOrder ==
    hookRun.called =>
        LET regs == RegisteredHooks
            ran == hookRun.ran
        IN  /\ \A i \in 1..Len(ran) :
                  \E k \in 1..Len(regs) : regs[k].func.id = ran[i]
            /\ \A i, k \in 1..Len(ran) :
                  i < k => RunsBefore(regs, ran[i], ran[k])
            /\ ~hookRun.raised =>
                  \A k \in 1..Len(regs) :
                      \E i \in 1..Len(ran) : ran[i] = regs[k].func.id

\* handlers registered with priorities 50, 10, 90 ran as 10, 50, 90
C9_Witness ==
    /\ hookRun.called
    /\ ~hookRun.raised
    /\ Len(RegisteredHooks) = 3
    /\ RegisteredHooks[1].priority = 50
    /\ RegisteredHooks[2].priority = 10
    /\ RegisteredHooks[3].priority = 90
    /\ hookRun.ran = << RegisteredHooks[2].func.id, RegisteredHooks[1].func.id,
                        RegisteredHooks[3].func.id >>

\* a status write the lifecycle allows after the previous one
AllowedStep(a, b) ==
    \/ a = PENDING /\ b = PROCESSING
    \/ a = PROCESSING /\ b \in {COMPLETED, FAILED}

\* C1: the status values written for a job start with PENDING and then only
\* move PENDING -> PROCESSING -> COMPLETED or FAILED; nothing is written
\* after COMPLETED or FAILED, nothing returns to PENDING or skips PROCESSING.
C1_StatusOnlyMovesForward ==
    \A j \in JobIds :
        \A i \in 1..Len(writes[j]) :
            IF i = 1
            THEN writes[j][i] = PENDING
            ELSE AllowedStep(writes[j][i - 1], writes[j][i])

\* C2: a start-processing request for an existing job that is not PENDING is
\* answered with the conflict error 400, by JobService.process_job and by
\* POST /process alike.
C2_NonPendingStartIsConflict ==
    \A j \in DOMAIN storage :
        storage[j].status # PENDING =>
            /\ process_job_guard(storage, j) = 400
            /\ process_image_code(storage, j) = 400

\* the JobService.process_job invocations that found job j in the store
InvokedOn(j) ==
    {t \in SvcTasks : svc[t].pc # "idle" /\ svc[t].job = j /\ svc[t].code # 404}

\* those among them the guard rejected
Rejected(j) == {t \in InvokedOn(j) : svc[t].pc = "done" /\ svc[t].code = 400}

\* C3: of two JobService.process_job invocations for the same PENDING job
\* exactly one passes the guard, the other is rejected with 400; once the
\* accepted one has ended the pipeline was invoked exactly once and the
\* stored status is the outcome of the accepted invocation.
C3_TwoStartsOneRun ==
    \A j \in JobIds :
        Cardinality(InvokedOn(j)) = 2 =>
            /\ Cardinality(Rejected(j)) = 1
            /\ \A t \in InvokedOn(j) \ Rejected(j) :
                  svc[t].pc = "done" =>
                      /\ pipelineRuns[j] = 1
                      /\ svc[t].code \in {200, 500}
                      /\ storage[j].status =
                            IF svc[t].code = 200 THEN COMPLETED ELSE FAILED

\* no JobService run for job j is between its guard and its last broadcast
NoRunInFlight(j) ==
    \A t \in SvcTasks : svc[t].job = j => svc[t].pc \in {"idle", "done"}

\* the notifications of the given type broadcast for job j
SentOfType(j, type) == {i \in 1..Len(sent[j]) : sent[j][i].type = type}

\* C4: once an accepted run whose pipeline returned a result has ended, the
\* stored job is COMPLETED with an output location and no error, and exactly
\* one `complete` notification was broadcast for it.
C4_SuccessStoredAndAnnouncedOnce ==
    \A j \in DOMAIN storage :
        (/\ outcome[j] = {[ok |-> TRUE, msg |-> None]}
         /\ pipelineRuns[j] = 1
         /\ background[j] = 0
         /\ NoRunInFlight(j)) =>
            /\ storage[j].status = COMPLETED
            /\ storage[j].output_path # None
            /\ storage[j].error = None
            /\ Cardinality(SentOfType(j, "complete")) = 1

\* C5: once the pipeline has raised with message m in an accepted
\* JobService run, the stored job is FAILED with error m, and when the run
\* has ended an `error` notification carrying m was broadcast.
C5_FailureStoredWithMessage ==
    \A t \in SvcTasks :
        \A m \in ErrMsgs :
            (/\ svc[t].pc \in {"error", "done"}
             /\ svc[t].job \in DOMAIN storage
             /\ svc[t].code # 400
             /\ outcome[svc[t].job] = {[ok |-> FALSE, msg |-> m]}) =>
                /\ storage[svc[t].job].status = FAILED
                /\ storage[svc[t].job].error = m
                /\ svc[t].pc = "done" =>
                      \E i \in 1..Len(sent[svc[t].job]) :
                          sent[svc[t].job][i] = ErrorMsg(m)

\* C6: every job record has an output location exactly when its status is
\* COMPLETED and an error message exactly when its status is FAILED.
C6_OutputIffCompletedErrorIffFailed ==
    \A j \in DOMAIN storage :
        /\ storage[j].output_path # None <=> storage[j].status = COMPLETED
        /\ storage[j].error # None <=> storage[j].status = FAILED

\* C10: a broadcast attempts a send to every connection subscribed to the
\* job; a connection whose send failed is no longer subscribed afterwards,
\* and the job's entry is gone when no connection is left.
C10_BroadcastDropsFailedChannels ==
    lastBroadcast.type # "none" =>
        /\ Len(lastBroadcast.sends) = Len(lastBroadcast.subscribed)
        /\ \A i \in 1..Len(lastBroadcast.sends) :
              /\ lastBroadcast.sends[i].ws = lastBroadcast.subscribed[i]
              /\ ~lastBroadcast.sends[i].ok =>
                    ~InList(lastBroadcast.after, lastBroadcast.sends[i].ws)
        /\ lastBroadcast.after = << >> => ~lastBroadcast.present

\* C11: once websocket_endpoint has ended, on whichever path, the websocket
\* it registered is in no list of the hub's table.
C11_NoSubscriptionOutlivesLoop ==
    \A c \in DOMAIN chan :
        chan[c].st = "closed" =>
            \A j \in DOMAIN active_connections :
                ~InList(active_connections[j], c)

\* a loop ended by a failed keepalive send while the websocket was still
\* in the table, beside another subscriber of the same job
C11_Witness ==
    \E c, d \in DOMAIN chan :
        /\ c # d
        /\ chan[c].st = "closed"
        /\ chan[c].exit = "keepalive_failed"
        /\ chan[d].st = "open"
        /\ chan[d].job = chan[c].job
        /\ Subscribed(active_connections, chan[c].job) = << d >>

\* C12: once a discover() has completed, a later discover() call scans
\* nothing and leaves the extension table, the provider table and their
\* order as they were.
C12_DiscoverIsIdempotent ==
    [][discovered =>
          /\ discovered'
          /\ scans' = scans
          /\ reg_extensions' = reg_extensions
          /\ reg_providers' = reg_providers]_vars

\* a second discover() call, on a registry holding two extensions, that
\* scanned nothing
C12_Witness ==
    /\ discovered
    /\ discoverCalls = << "raised", "scanned", "skipped" >>
    /\ scans = 1
    /\ Len(reg_extensions) = 2
    /\ DOMAIN reg_providers = ExtNames

\* C13: creating a job whose id is already stored fails and leaves the
\* stored record as it was, in JobStorage.create_job and in create of both
\* repositories.
C13_CreateExistingIdFails ==
    [][/\ (storeOp'.op = "create_job"
           /\ storeOp'.id \in DOMAIN Records(ThisStore)) =>
              /\ storeOp'.ret = "raised"
              /\ storage' = storage
              /\ redis' = redis
       /\ (storeOp'.op = "create"
           /\ storeOp'.id \in DOMAIN RepoJobs(repo, redis)) =>
              /\ storeOp'.ret = "raised"
              /\ repo' = repo
              /\ redis' = redis]_vars

\* what an update of job j with the fields of `updates` has to do: False and
\* no change at all for an unknown id; True, the given fields stored, every
\* other field and every other record as before for a known id
UpdateEffect(j, updates) ==
    IF j \notin DOMAIN Records(ThisStore)
    THEN /\ storeOp'.ret = "false"
         /\ storage' = storage
         /\ redis' = redis
    ELSE /\ storeOp'.ret = "true"
         /\ DOMAIN Records(ThisStore)' = DOMAIN Records(ThisStore)
         /\ \A k \in DOMAIN Records(ThisStore) \ {j} :
               /\ Records(ThisStore)'[k] = Records(ThisStore)[k]
               /\ use_redis => redis'[k] = redis[k]
         /\ \A f \in DOMAIN Records(ThisStore)[j] :
               Records(ThisStore)'[j][f] =
                   IF f \in DOMAIN updates THEN updates[f]
                   ELSE Records(ThisStore)[j][f]

\* the same for JobRepository.update(job), which stores the whole Job
RepoUpdateEffect(job) ==
    IF job.job_id \notin DOMAIN RepoJobs(repo, redis)
    THEN /\ storeOp'.ret = "false"
         /\ repo' = repo
         /\ redis' = redis
    ELSE /\ storeOp'.ret = "true"
         /\ DOMAIN RepoJobs(repo', redis') = DOMAIN RepoJobs(repo, redis)
         /\ RepoJobs(repo', redis')[job.job_id] = job
         /\ \A k \in DOMAIN RepoJobs(repo, redis) \ {job.job_id} :
               /\ RepoJobs(repo', redis')[k] = RepoJobs(repo, redis)[k]
               /\ repo.kind = "redis" => redis'[k] = redis[k]

\* C14: an update for an unknown id returns False and changes nothing; for
\* a known id it returns True and the stored record then holds the fields
\* the call gave, all other fields and all other records as before.
C14_UpdateFrame ==
    [][/\ \A j \in StoreIds, updates \in UpdateDicts :
             (StoreUpdate(j, updates) /\ storeOp'.ret # "raised") =>
                 UpdateEffect(j, updates)
       /\ \A j \in StoreIds, status \in {PROCESSING, FAILED} :
             (StoreSetStatus(j, status, None) /\ storeOp'.ret # "raised") =>
                 UpdateEffect(j, [status |-> status])
       /\ \A j \in StoreIds, status \in {PROCESSING, FAILED},
             error \in ErrMsgs :
             (StoreSetStatus(j, status, error) /\ storeOp'.ret # "raised") =>
                 UpdateEffect(j, [status |-> status, error |-> error])
       /\ \A j \in StoreIds :
             (StoreSetResult(j) /\ storeOp'.ret # "raised") =>
                 UpdateEffect(j, [output_path |-> "result.svg",
                                  status |-> COMPLETED, stats |-> "stats",
                                  device_used |-> "cpu"])
       /\ \A j \in StoreIds :
             \A job \in Jobs(j) :
                 (RepoUpdate(job) /\ storeOp'.ret # "raised") =>
                     RepoUpdateEffect(job)]_vars

\* C15: a job that was created, and neither deleted nor expired since, is
\* retrievable from the store a request works with.
C15_CreatedStaysRetrievable ==
    \A j \in live :
        IF repo.kind # "none"
        THEN j \in DOMAIN RepoJobs(repo, redis)
        ELSE j \in DOMAIN Records(ThisStore)

\* C16: a JobStorage whose Redis connection failed at initialization fell
\* back to the dict; the backend chosen at initialization never changes,
\* and every record of the instance is in that one backend.
C16_OneBackendPerStore ==
    [][/\ storeOp.init = "fallback" => ~use_redis
       /\ use_redis' = use_redis
       /\ use_redis' => storage' = << >>
       /\ ~use_redis' => redis' = << >>]_vars

\* a store that fell back to the dict created a job after Redis had come
\* back, and the job is in the dict
C16_Witness ==
    /\ storeOp.init = "fallback"
    /\ storeOp.op = "create_job"
    /\ redisUp
    /\ ~use_redis
    /\ storage # << >>
    /\ redis = << >>

\* the store calls that write a record, and those that only read
WriteOps == {"create_job", "update_job", "set_status", "set_result"}
ReadOps == {"get_job", "exists"}

\* C17: in Redis every successful write of a job record (create_job,
\* update_job, set_status, set_result) leaves the record with the full
\* TTL of 7 days and the other keys as they were, and a read (get_job,
\* exists) changes no key and no TTL.
C17_WriteRefreshesTtl ==
    [][/\ (/\ use_redis
           /\ storeOp'.op \in WriteOps
           /\ storeOp'.ret \in {"none", "true"})
          => /\ storeOp'.id \in DOMAIN redis'
             /\ redis'[storeOp'.id].ttl = 86400 * 7
             /\ \A k \in DOMAIN redis \ {storeOp'.id} :
                   k \in DOMAIN redis' /\ redis'[k] = redis[k]
       /\ storeOp'.op \in ReadOps => redis' = redis]_vars

\* half of the TTL has passed for one record, and a status change has
\* written another record, which has the full TTL
C17_Witness ==
    /\ use_redis
    /\ storeOp.op = "set_status"
    /\ storeOp.ret = "true"
    /\ redis[storeOp.id].ttl = TTL
    /\ \E k \in DOMAIN redis : redis[k].ttl = TTL \div 2

\* get_job_status: result_url is set whenever the record has an output_path
result_url(job) ==
    IF Truthy(job.output_path) THEN "/api/download/job_id" ELSE None

\* get_job_status: the response code
get_job_status_code(store, job_id) ==
    IF ~validate_job_id(job_id) THEN 400
    ELSE IF job_id \notin DOMAIN store THEN 404
    ELSE 200

\* download_result and JobService.get_result_path: the file is served for a
\* COMPLETED record with an output_path (the file written before set_result)
download_result_code(store, job_id) ==
    IF ~validate_job_id(job_id) THEN 400
    ELSE IF job_id \notin DOMAIN store THEN 404
    ELSE IF store[job_id].status # COMPLETED THEN 400
    ELSE IF ~Truthy(store[job_id].output_path) THEN 404
    ELSE 200

\* C18: for a job whose stored status is FAILED the status query reports
\* no result URL and the download is refused; a file is served only for a
\* COMPLETED job.
C18_FailedExposesNoResult ==
    \A j \in DOMAIN storage :
        /\ storage[j].status = FAILED
              => /\ get_job_status_code(storage, j) = 200
                 /\ result_url(storage[j]) = None
                 /\ download_result_code(storage, j) # 200
        /\ download_result_code(storage, j) = 200
              => storage[j].status = COMPLETED

\* JobService.get_job: 404 for an id without a record
get_job_code(store, job_id) ==
    IF job_id \notin DOMAIN store THEN 404 ELSE 200

\* C19: every operation naming an id that has no record (status query,
\* start-processing, download, JobService.get_job and process_job) answers
\* 404, whatever the id string is.
C19_UnknownIdIsNotFound ==
    \A id \in AllIds \ DOMAIN storage :
        /\ get_job_status_code(storage, id) = 404
        /\ process_image_code(storage, id) = 404
        /\ download_result_code(storage, id) = 404
        /\ get_job_code(storage, id) = 404
        /\ process_job_guard(storage, id) = 404

\* C20: both upload handlers accept only a named file of a supported
\* format within the size limit, reject an unsupported format with 400 and
\* an oversized file with 413, and a job record that was only created is
\* PENDING without output, error or statistics.
C20_UploadContract ==
    /\ \A input \in UploadInputs :
          /\ upload_image_code(input) = 200 <=> input = "ok"
          /\ create_job_from_upload_code(input) = 200 <=> input = "ok"
    /\ upload_image_code("bad_suffix") = 400
    /\ create_job_from_upload_code("bad_suffix") = 400
    /\ upload_image_code("too_large") = 413
    /\ create_job_from_upload_code("too_large") = 413
    /\ \A j \in DOMAIN storage :
          /\ j < nextId
          /\ writes[j] = << PENDING >>
                => /\ storage[j].status = PENDING
                   /\ storage[j].output_path = None
                   /\ storage[j].error = None
                   /\ storage[j].stats = None

\* ------------------------------------------------------------------------
\* extensions/vectorize/EXT_Vectorize.py  EXT_Vectorize.vectorize
\* (preprocess, extract and optimize are written the same way)
\* ------------------------------------------------------------------------
MaxStageHooks == 2
\* what provider.execute returns, and what a handler hands to set_output
ProviderOutput == "svg"
HookOutputs == {None, "hooked"}
\* what a handler does with the context: nothing, set_output(v), or raise
HookFuncs(id) ==
    {[id |-> id, raises |-> TRUE, sets |-> "keep"]}
        \cup {[id |-> id, raises |-> FALSE, sets |-> v] :
                v \in HookOutputs \cup {"keep"}}
StagePriorities == {10, 50}

\* the handlers of the list run on a context whose output_data is `out`:
\* output_data when the loop of execute_hooks ends
RECURSIVE hooks_output(_, _)
hooks_output(list, out) ==
    IF list = << >> THEN out
    ELSE IF Head(list).func.raises THEN out
    ELSE hooks_output(Tail(list),
                      IF Head(list).func.sets = "keep" THEN out
                      ELSE Head(list).func.sets)

\* the handlers execute_hooks calls for a key, in the order it calls them
hooks_of(table, hook_key) ==
    IF hook_key \in DOMAIN table THEN sorted(table[hook_key]) ELSE << >>

\* the calls of one execute_hooks, as events of the stage
Events(timing, ran) == [i \in 1..Len(ran) |-> [ev |-> timing, id |-> ran[i]]]

\* vectorize returning what provider.execute returned
vectorize_ignoring_hooks(table, providers, given, prefs, avail, execRaises) ==
    LET before == execute_hooks(table, << "vectorize", "before" >>)
        provider == select_provider(providers, given, prefs, avail)
        after == execute_hooks(table, << "vectorize", "after" >>)
        ctx == hooks_output(hooks_of(table, << "vectorize", "after" >>),
                            ProviderOutput)
        t1 == Events("before", before.ran)
        t2 == t1 \o << [ev |-> "select", id |-> 0] >>
        t3 == t2 \o << [ev |-> "execute", id |-> provider.name] >>
        t4 == t3 \o Events("after", after.ran)
    IN  IF before.raised
        THEN [called |-> TRUE, trace |-> t1, raised |-> "hook",
              ctx |-> None, ret |-> NoReturn]
        ELSE IF provider = NoProvider
        THEN [called |-> TRUE, trace |-> t2, raised |-> "RuntimeError",
              ctx |-> None, ret |-> NoReturn]
        ELSE IF execRaises
        THEN [called |-> TRUE, trace |-> t3, raised |-> "provider",
              ctx |-> None, ret |-> NoReturn]
        ELSE IF after.raised
        THEN [called |-> TRUE, trace |-> t4, raised |-> "hook",
              ctx |-> ctx, ret |-> NoReturn]
        ELSE [called |-> TRUE, trace |-> t4, raised |-> "none",
              ctx |-> ctx, ret |-> ProviderOutput]

\* EXT_Vectorize.vectorize, lines 61-84: the calls it makes, the exception
\* that ends it, the context's output_data at its end and what it returns
vectorize(table, providers, given, prefs, avail, execRaises) ==
    LET before == execute_hooks(table, << "vectorize", "before" >>)
        provider == select_provider(providers, given, prefs, avail)
        after == execute_hooks(table, << "vectorize", "after" >>)
        ctx == hooks_output(hooks_of(table, << "vectorize", "after" >>),
                            ProviderOutput)
        t1 == Events("before", before.ran)
        t2 == t1 \o << [ev |-> "select", id |-> 0] >>
        t3 == t2 \o << [ev |-> "execute", id |-> provider.name] >>
        t4 == t3 \o Events("after", after.ran)
    IN  IF before.raised
        THEN [called |-> TRUE, trace |-> t1, raised |-> "hook",
              ctx |-> None, ret |-> NoReturn]
        ELSE IF provider = NoProvider
        THEN [called |-> TRUE, trace |-> t2, raised |-> "RuntimeError",
              ctx |-> None, ret |-> NoReturn]
        ELSE IF execRaises
        THEN [called |-> TRUE, trace |-> t3, raised |-> "provider",
              ctx |-> None, ret |-> NoReturn]
        ELSE IF after.raised
        THEN [called |-> TRUE, trace |-> t4, raised |-> "hook",
              ctx |-> ctx, ret |-> NoReturn]
        ELSE [called |-> TRUE, trace |-> t4, raised |-> "none",
              ctx |-> ctx,
              ret |-> IF ctx # None THEN ctx ELSE ProviderOutput]

notStageVars ==
    << storage, nextId, processor, regVars, storeVars, svc, background,
       hubVars, lastBroadcast, sent, writes, outcome, pipelineRuns,
       reg_providers, available, selection, hookRun, hubProc, twin, race >>

\* @hook(EXT_Vectorize, "vectorize", timing, priority) applied to a handler
StageHookRegister(hook_key, priority, func) ==
    /\ hooks.next <= MaxStageHooks
    /\ func.id = hooks.next
    /\ hooks' = [next |-> hooks.next + 1,
                 table |-> hook(hooks.table, hook_key, priority, func)]
    /\ UNCHANGED << stageRun, procRun >>
    /\ UNCHANGED notStageVars

\* EXT_Vectorize.vectorize(image, provider_preferences, **params)
Vectorize(given, prefs, execRaises) ==
    /\ given \/ prefs = << >>
    /\ stageRun' = ("upto" :> hooks.next - 1)
                    @@ vectorize(hooks.table,
                                 get_providers(reg_providers, "vectorize"),
                                 given, prefs, available, execRaises)
    /\ UNCHANGED << hooks, procRun >>
    /\ UNCHANGED notStageVars

\* the registry after discovery, with the vectorize providers in name order
InitStage ==
    /\ InitJobs
    /\ InitStoreVars(FALSE)
    /\ reg_extensions = << "optimize", "vectorize" >>
    /\ discovered = TRUE
    /\ scans = 1
    /\ discoverCalls = << "scanned" >>
    /\ processor = "PhotoToLineProcessor"
    /\ InitHub(Channels)
    /\ reg_providers =
          [e \in ExtNames |->
              IF e = "vectorize"
              THEN [i \in 1..MaxProviders |->
                      [extension |-> "vectorize", name |-> i]]
              ELSE << [extension |-> "optimize", name |-> 1] >>]
    /\ available \in SUBSET {c \in ProviderClasses : c.extension = "vectorize"}
    /\ selection = NoSelection
    /\ hooks = [next |-> 1, table |-> << >>]
    /\ hookRun = NoHookRun

NextStage ==
    \/ \E k \in HookKeys, p \in StagePriorities :
          \E f \in HookFuncs(hooks.next) : StageHookRegister(k, p, f)
    \/ \E given \in BOOLEAN, prefs \in SeqsUpTo(ProviderNames, 1),
          execRaises \in BOOLEAN : Vectorize(given, prefs, execRaises)

SpecStage == InitStage /\ [][NextStage]_vars

\* the place of an event in the order of a stage invocation
Phase(e) ==
    CASE e.ev = "before" -> 1
      [] e.ev = "select" -> 2
      [] e.ev = "execute" -> 3
      [] e.ev = "after" -> 4

\* the ids of the handlers registered under a key before the latest
\* stage invocation
RegisteredBy(run, hook_key) ==
    IF hook_key \in DOMAIN hooks.table
    THEN {hooks.table[hook_key][i].func.id :
            i \in {n \in 1..Len(hooks.table[hook_key]) :
                     hooks.table[hook_key][n].func.id <= run.upto}}
    ELSE {}

\* the ids of the events of one kind in a trace
Ran(trace, ev) == {trace[i].id : i \in {n \in 1..Len(trace) : trace[n].ev = ev}}

\* a completed invocation: every `before` handler, then the selection,
\* then execute, then every `after` handler, each once
StageOrder(run) ==
    /\ \A i, k \in 1..Len(run.trace) :
          i < k => Phase(run.trace[i]) <= Phase(run.trace[k])
    /\ Ran(run.trace, "before") = RegisteredBy(run, << "vectorize", "before" >>)
    /\ Ran(run.trace, "after") = RegisteredBy(run, << "vectorize", "after" >>)
    /\ Cardinality({i \in 1..Len(run.trace) : run.trace[i].ev = "select"}) = 1
    /\ Cardinality({i \in 1..Len(run.trace) : run.trace[i].ev = "execute"}) = 1
    /\ Len(run.trace) = 2 + Cardinality(Ran(run.trace, "before"))
                          + Cardinality(Ran(run.trace, "after"))

\* C21 as stated: a stage invocation that returns ran the `before` hooks,
\* the provider selection, execute and the `after` hooks in this order, and
\* it returns the output the context holds after the `after` hooks.
C21_StageReturnsContextOutput ==
    (stageRun.called /\ stageRun.raised = "none")
        => /\ StageOrder(stageRun)
           /\ stageRun.ret = stageRun.ctx

\* C21 amended: the order is as stated, and the invocation returns the
\* output the context holds after the `after` hooks unless that output is
\* None, in which case it returns what the provider's execute returned.
C21_StageReturnsContextOutputUnlessNone ==
    (stageRun.called /\ stageRun.raised = "none")
        => /\ StageOrder(stageRun)
           /\ stageRun.ret = IF stageRun.ctx # None THEN stageRun.ctx
                             ELSE ProviderOutput

\* an invocation with a `before` and an `after` handler returned the output
\* the `after` handler had set
C21_Witness ==
    /\ stageRun.called
    /\ stageRun.raised = "none"
    /\ Ran(stageRun.trace, "before") # {}
    /\ Ran(stageRun.trace, "after") # {}
    /\ stageRun.ctx = "hooked"
    /\ stageRun.ret = "hooked"

\* the handlers registered under a key before the latest stage invocation
EntriesBy(run, hook_key) ==
    IF hook_key \in DOMAIN hooks.table
    THEN {hooks.table[hook_key][i] :
            i \in {n \in 1..Len(hooks.table[hook_key]) :
                     hooks.table[hook_key][n].func.id <= run.upto}}
    ELSE {}

\* handler a is called before handler b
Earlier(a, b) ==
    \/ a.priority < b.priority
    \/ a.priority = b.priority /\ a.func.id < b.func.id

\* the invocation ended in the handler x of the given timing: x is the last
\* call, every handler called before x is earlier in the order, and the
\* exception left the stage without a return value
EndedIn(run, timing, x) ==
    /\ run.raised = "hook"
    /\ run.ret = NoReturn
    /\ run.trace # << >>
    /\ run.trace[Len(run.trace)] = [ev |-> timing, id |-> x.func.id]
    /\ \A y \in EntriesBy(run, << "vectorize", timing >>) :
          y.func.id \in Ran(run.trace, timing)
              <=> (y = x \/ Earlier(y, x))

\* C22: when a handler raises during execute_hooks no handler later in
\* the priority order runs and the exception leaves the stage: with a
\* raising `before` handler execute is never called, with a raising `after`
\* handler the stage returns no output.
C22_HookExceptionAbortsStage ==
    LET befores == EntriesBy(stageRun, << "vectorize", "before" >>)
        afters == EntriesBy(stageRun, << "vectorize", "after" >>)
        raisingB == {x \in befores : x.func.raises}
        raisingA == {x \in afters : x.func.raises}
        firstB == CHOOSE x \in raisingB :
                     \A y \in raisingB \ {x} : Earlier(x, y)
        firstA == CHOOSE x \in raisingA :
                     \A y \in raisingA \ {x} : Earlier(x, y)
    IN  stageRun.called =>
          /\ raisingB # {}
                => /\ EndedIn(stageRun, "before", firstB)
                   /\ Ran(stageRun.trace, "after") = {}
                   /\ \A i \in 1..Len(stageRun.trace) :
                         stageRun.trace[i].ev = "before"
          /\ (raisingB = {} /\ raisingA # {}
                /\ stageRun.raised \notin {"RuntimeError", "provider"})
                => /\ EndedIn(stageRun, "after", firstA)
                   /\ \E i \in 1..Len(stageRun.trace) :
                         stageRun.trace[i].ev = "execute"

\* a raising `before` handler of priority 10 ended an invocation although
\* another `before` handler of priority 50 was registered
C22_Witness ==
    /\ stageRun.called
    /\ stageRun.raised = "hook"
    /\ stageRun.upto = 2
    /\ Len(stageRun.trace) = 1
    /\ stageRun.trace[1].ev = "before"
    /\ Cardinality(EntriesBy(stageRun, << "vectorize", "before" >>)) = 2

\* C23: of the POST /process requests for one PENDING job exactly one is
\* accepted and schedules a background run; the runs scheduled and the
\* pipeline invocations made for a job are never more than one together.
C23_TwoPostsOneRun ==
    \A j \in JobIds : background[j] + pipelineRuns[j] <= 1

\* C24: PROCESSING is stored before the pipeline is invoked and before the
\* acceptance is reported: a job whose pipeline was invoked has a
\* PROCESSING write, and a job for which a request was answered with
\* `processing` is not stored as PENDING.
C24_ProcessingStoredBeforeAcceptance ==
    \A j \in DOMAIN storage :
        /\ pipelineRuns[j] > 0
              => \E i \in 1..Len(writes[j]) : writes[j][i] = PROCESSING
        /\ (background[j] > 0 \/ pipelineRuns[j] > 0)
              => storage[j].status # PENDING

\* the notifications of one successful run, in the order of the code
Milestones ==
    << ProgressMsg(10), ProgressMsg(20), ProgressMsg(80), CompleteMsg >>

\* the messages of a sequence that carry a progress value
WithProgress(q) == SelectSeq(q, LAMBDA m : m.type \in {"progress", "complete"})

Terminal(j) == SentOfType(j, "complete") \cup SentOfType(j, "error")

\* C26: once the accepted run of a job has ended, exactly one terminal
\* notification was broadcast for the job and nothing after it: `complete`
\* if and only if the run stored COMPLETED, `error` if and only if it
\* stored FAILED.
C26_OneTerminalNotification ==
    \A j \in DOMAIN storage :
        (/\ storage[j].status \in {COMPLETED, FAILED}
         /\ background[j] = 0
         /\ NoRunInFlight(j)) =>
            /\ Cardinality(Terminal(j)) = 1
            /\ Len(sent[j]) \in Terminal(j)
            /\ SentOfType(j, "complete") # {} <=> storage[j].status = COMPLETED
            /\ SentOfType(j, "error") # {} <=> storage[j].status = FAILED

\* ------------------------------------------------------------------------
\* pipeline/processor.py  PhotoToLineProcessor.process
\* ------------------------------------------------------------------------
ImagePaths == {<< "a.png" >>, << "b.png" >>}

\* the statement that follows a stage in process, lines 124-191
stage_after(stage, hatching_enabled) ==
    CASE stage = "start" -> "preprocess"
      [] stage = "preprocess" -> "extract"
      [] stage = "extract" ->
            IF hatching_enabled THEN "hatching" ELSE "invert"
      [] stage = "hatching" -> "invert"
      [] stage = "invert" -> "vectorize"
      [] stage = "vectorize" -> "optimize"
      [] stage = "optimize" -> "stats"
      [] stage = "stats" -> "return"

\* the local variable a stage is handed
stage_input(stage, locals) ==
    CASE stage = "preprocess" -> locals.image_path
      [] stage = "extract" -> locals.preprocessed
      [] stage = "hatching" -> locals.edges
      [] stage = "invert" -> locals.edges
      [] stage = "vectorize" -> locals.edges_inverted
      [] stage = "optimize" -> locals.svg_raw
      [] stage = "stats" -> locals.svg_optimized

\* the local variable the stage's result is assigned to
stage_target(stage) ==
    CASE stage = "preprocess" -> "preprocessed"
      [] stage = "extract" -> "edges"
      [] stage = "hatching" -> "edges"
      [] stage = "invert" -> "edges_inverted"
      [] stage = "vectorize" -> "svg_raw"
      [] stage = "optimize" -> "svg_optimized"
      [] stage = "stats" -> "stats"

\* what a stage makes of its input: the input with the stage applied
stage_output(stage, input) == Append(input, stage)

\* the provider preferences process passes to a stage
provider_prefs(stage, u2net_available) ==
    CASE stage = "preprocess" ->
            IF u2net_available THEN << "u2net" >> ELSE << "classical_cv" >>
      [] stage = "extract" -> << "bilateral_canny" >>
      [] stage = "vectorize" -> << "imagetracer" >>
      [] stage \in {"optimize", "stats"} -> << "vpype" >>
      [] OTHER -> << >>

\* process with the hatching overlay applied whatever the parameters say
process_step_always_hatching(run, raises) ==
    LET stage == stage_after(IF run.trace = << >> THEN "start"
                             ELSE run.trace[Len(run.trace)].stage,
                             TRUE)
        input == stage_input(stage, run.locals)
        call == [stage |-> stage, input |-> input,
                 prefs |-> provider_prefs(stage, run.u2net_available),
                 raised |-> raises,
                 output |-> IF raises THEN << >>
                            ELSE stage_output(stage, input)]
    IN  IF stage = "return"
        THEN [run EXCEPT !.pc = "done",
                         !.result = [svg_content |-> run.locals.svg_optimized,
                                     stats |-> run.locals.stats]]
        ELSE IF raises
        THEN [run EXCEPT !.pc = "done", !.raised = TRUE,
                         !.trace = Append(@, call)]
        ELSE [run EXCEPT !.trace = Append(@, call),
                         !.locals[stage_target(stage)] = call.output]

\* the next statement of process: the stage is called with its input and
\* either raises, which ends process, or its result is assigned
process_step(run, raises) ==
    LET stage == stage_after(IF run.trace = << >> THEN "start"
                             ELSE run.trace[Len(run.trace)].stage,
                             run.hatching_enabled)
        input == stage_input(stage, run.locals)
        call == [stage |-> stage, input |-> input,
                 prefs |-> provider_prefs(stage, run.u2net_available),
                 raised |-> raises,
                 output |-> IF raises THEN << >>
                            ELSE stage_output(stage, input)]
    IN  IF stage = "return"
        THEN [run EXCEPT !.pc = "done",
                         !.result = [svg_content |-> run.locals.svg_optimized,
                                     stats |-> run.locals.stats]]
        ELSE IF raises
        THEN [run EXCEPT !.pc = "done", !.raised = TRUE,
                         !.trace = Append(@, call)]
        ELSE [run EXCEPT !.trace = Append(@, call),
                         !.locals[stage_target(stage)] = call.output]

notProcVars ==
    << storage, nextId, processor, regVars, storeVars, svc, background,
       hubVars, lastBroadcast, sent, writes, outcome, pipelineRuns, extVars,
       stageRun, hubProc, twin, race >>

\* proc.process(image_path, params) is called
ProcessCall(image_path, hatching_enabled, u2net_available) ==
    /\ procRun.pc \in {"idle", "done"}
    /\ procRun' = [NoProcRun EXCEPT !.pc = "running",
                                    !.hatching_enabled = hatching_enabled,
                                    !.u2net_available = u2net_available,
                                    !.locals.image_path = image_path]
    /\ UNCHANGED notProcVars

\* process executes its next statement
ProcessStep(raises) ==
    /\ procRun.pc = "running"
    /\ procRun' = process_step(procRun, raises)
    /\ UNCHANGED notProcVars

NextProcess ==
    \/ \E image_path \in ImagePaths, hatching_enabled \in BOOLEAN,
          u2net_available \in BOOLEAN :
          ProcessCall(image_path, hatching_enabled, u2net_available)
    \/ \E raises \in BOOLEAN : ProcessStep(raises)

SpecProcess == InitStage /\ [][NextProcess]_vars

\* the stages of process in the order of its statements
StageOrderOf(hatching_enabled) ==
    IF hatching_enabled
    THEN << "preprocess", "extract", "hatching", "invert", "vectorize",
            "optimize", "stats" >>
    ELSE << "preprocess", "extract", "invert", "vectorize", "optimize",
            "stats" >>

\* C27: process calls preprocess, line extraction, the hatching overlay
\* (if and only if hatching_enabled), tone inversion, vectorize, optimize
\* and statistics extraction in this order, each with the output of the
\* stage before it; a stage that raises is the last one called and process
\* returns nothing.
C27_StagesInFixedOrder ==
    LET t == procRun.trace
        order == StageOrderOf(procRun.hatching_enabled)
    IN  procRun.pc # "idle" =>
          /\ Len(t) <= Len(order)
          /\ \A i \in 1..Len(t) : t[i].stage = order[i]
          /\ t # << >> => t[1].input = procRun.locals.image_path
          /\ \A i \in 2..Len(t) :
                /\ ~t[i - 1].raised
                /\ t[i].input = t[i - 1].output
          /\ procRun.raised
                => /\ procRun.pc = "done"
                   /\ t # << >>
                   /\ t[Len(t)].raised
                   /\ procRun.result = NoResult
          /\ (procRun.pc = "done" /\ ~procRun.raised)
                => /\ Len(t) = Len(order)
                   /\ procRun.result.svg_content = t[Len(t) - 1].output
                   /\ procRun.result.stats = t[Len(t)].output

\* a call without hatching returned after six stages
C27_Witness ==
    /\ procRun.pc = "done"
    /\ ~procRun.raised
    /\ ~procRun.hatching_enabled
    /\ Len(procRun.trace) = 6
    /\ procRun.result.svg_content
          = << "a.png", "preprocess", "extract", "invert", "vectorize",
               "optimize" >>

\* C29: no job id maps to an empty list of connections; an entry appears
\* only through a connect for its job id, which makes it the list of that
\* one websocket, and the disconnect of a websocket that is not subscribed
\* leaves the table as it is.
C29_NoEmptyEntry ==
    [][/\ \A j \in DOMAIN active_connections' :
             active_connections'[j] # << >>
       /\ \A j \in DOMAIN active_connections' \ DOMAIN active_connections :
             \E c \in DOMAIN chan :
                 /\ chan[c].st = "new"
                 /\ chan'[c].st = "open"
                 /\ chan'[c].job = j
                 /\ active_connections'[j] = << c >>
       /\ \A c \in DOMAIN chan :
             (/\ chan[c].st # "closed"
              /\ chan'[c].st = "closed"
              /\ ~InList(Subscribed(active_connections, chan[c].job), c))
                 => active_connections' = active_connections]_vars

\* a progress broadcast dropped the last, failing websocket of a job and
\* with it the job's entry; the websocket's loop has ended since, and its
\* disconnect found nothing to remove
C29_Witness ==
    /\ lastBroadcast.type = "progress"
    /\ lastBroadcast.subscribed # << >>
    /\ ~lastBroadcast.present
    /\ \E c \in DOMAIN chan :
          /\ InList(lastBroadcast.subscribed, c)
          /\ chan[c].st = "closed"
    /\ \E j \in DOMAIN active_connections : j # lastBroadcast.job

\* ------------------------------------------------------------------------
\* api/websocket.py  ConnectionManager under its asyncio.Lock: the tasks
\* interleave at each await
\* ------------------------------------------------------------------------
notLockVars ==
    << storage, nextId, processor, regVars, storeVars, svc, background,
       lastBroadcast, sent, writes, outcome, pipelineRuns, extVars,
       stageRun, procRun, inbox, twin, race >>

\* broadcast_error has the critical section of broadcast_complete
BroadcastTypes == {"progress", "complete"}

\* connect, line 39: await websocket.accept(); the task then waits for the
\* lock
LockWsAccept(c, j) ==
    /\ chan[c].st = "new"
    /\ \A d \in DOMAIN chan : d < c => chan[d].st # "new"
    /\ chan' = [chan EXCEPT ![c].st = "connecting", ![c].job = j]
    /\ UNCHANGED << active_connections, hubProc >>
    /\ UNCHANGED notLockVars

\* connect entering its critical section whoever holds the lock
LockWsConnect_without_lock(c) ==
    /\ chan[c].st = "connecting"
    /\ active_connections' = connect(active_connections, c, chan[c].job)
    /\ chan' = [chan EXCEPT ![c].st = "open"]
    /\ UNCHANGED hubProc
    /\ UNCHANGED notLockVars

\* connect, lines 41-44: the critical section has no await, so the lock is
\* taken, the websocket appended and the lock released in one step
LockWsConnect(c) ==
    /\ chan[c].st = "connecting"
    /\ hubProc.lock = 0
    /\ active_connections' = connect(active_connections, c, chan[c].job)
    /\ chan' = [chan EXCEPT ![c].st = "open"]
    /\ UNCHANGED hubProc
    /\ UNCHANGED notLockVars

\* websocket_endpoint: the loop ends; finally awaits disconnect, which
\* waits for the lock
LockWsLoopEnds(c) ==
    /\ chan[c].st \in {"open", "dead"}
    /\ \E why \in ExitPaths(chan[c].st) :
          chan' = [chan EXCEPT ![c].st = "closing", ![c].exit = why]
    /\ UNCHANGED << active_connections, hubProc >>
    /\ UNCHANGED notLockVars

\* disconnect, lines 56-63: its critical section, without an await
LockWsDisconnect(c) ==
    /\ chan[c].st = "closing"
    /\ hubProc.lock = 0
    /\ active_connections' = disconnect(active_connections, c, chan[c].job)
    /\ chan' = [chan EXCEPT ![c].st = "closed"]
    /\ UNCHANGED hubProc
    /\ UNCHANGED notLockVars

\* a broadcast is called and waits for the lock
LockBroadcastCall(b, type, j) ==
    /\ hubProc.bc[b].pc = "idle"
    /\ \A a \in Broadcasters : a < b => hubProc.bc[a].pc # "idle"
    /\ hubProc' = [hubProc EXCEPT !.bc[b] =
                      [IdleBroadcast EXCEPT !.pc = "waiting", !.type = type,
                                            !.job = j]]
    /\ UNCHANGED << active_connections, chan >>
    /\ UNCHANGED notLockVars

\* async with self._lock: the broadcast gets the lock; without an entry
\* for the job it returns, else it starts to iterate (the progress
\* broadcast over the list itself, the others over a copy of it)
LockBroadcastAcquire(b) ==
    /\ hubProc.bc[b].pc = "waiting"
    /\ hubProc.lock = 0
    /\ LET j == hubProc.bc[b].job
       IN  IF j \notin DOMAIN active_connections
           THEN hubProc' = [hubProc EXCEPT !.bc[b].pc = "done"]
           ELSE hubProc' = [hubProc EXCEPT
                              !.lock = b,
                              !.bc[b].pc = "sending",
                              !.bc[b].idx = 1,
                              !.bc[b].targets = active_connections[j]]
    /\ UNCHANGED << active_connections, chan >>
    /\ UNCHANGED notLockVars

\* the list the loop of a broadcast reads at its next iteration
Iterated(b) ==
    IF hubProc.bc[b].type = "progress"
    THEN Subscribed(active_connections, hubProc.bc[b].job)
    ELSE hubProc.bc[b].targets

\* one iteration of the send loop: await connection.send_text(...)
LockBroadcastSend(b) ==
    /\ hubProc.bc[b].pc = "sending"
    /\ hubProc.bc[b].idx <= Len(Iterated(b))
    /\ LET c == Iterated(b)[hubProc.bc[b].idx]
       IN  hubProc' = [hubProc EXCEPT
                          !.bc[b].idx = @ + 1,
                          !.bc[b].sends =
                              Append(@, [ws |-> c, ok |-> c \notin Failing])]
    /\ UNCHANGED << active_connections, chan >>
    /\ UNCHANGED notLockVars

\* the websockets a broadcast collected in `disconnected`
Collected(b) ==
    LET failed == SelectSeq(hubProc.bc[b].sends, LAMBDA x : ~x.ok)
    IN  [i \in 1..Len(failed) |-> failed[i].ws]

\* the loop is through: the progress broadcast removes the websockets whose
\* send failed and an entry left empty; the lock is released
LockBroadcastFinish(b) ==
    /\ hubProc.bc[b].pc = "sending"
    /\ hubProc.bc[b].idx > Len(Iterated(b))
    /\ LET j == hubProc.bc[b].job
           rest == remove_all(Subscribed(active_connections, j), Collected(b))
       IN  active_connections' =
              IF hubProc.bc[b].type # "progress"
                 \/ j \notin DOMAIN active_connections
              THEN active_connections
              ELSE IF rest = << >> THEN Remove(active_connections, j)
              ELSE [active_connections EXCEPT ![j] = rest]
    /\ hubProc' = [hubProc EXCEPT !.lock = 0, !.bc[b].pc = "done"]
    /\ UNCHANGED chan
    /\ UNCHANGED notLockVars

NextLock ==
    \/ \E c \in HubChannels, j \in HubJobIds : LockWsAccept(c, j)
    \/ \E c \in HubChannels : LockWsConnect(c)
    \/ \E c \in HubChannels : WsPeerGone(c)
    \/ \E c \in HubChannels : LockWsLoopEnds(c)
    \/ \E c \in HubChannels : LockWsDisconnect(c)
    \/ \E b \in Broadcasters, type \in BroadcastTypes, j \in HubJobIds :
          LockBroadcastCall(b, type, j)
    \/ \E b \in Broadcasters : LockBroadcastAcquire(b)
    \/ \E b \in Broadcasters : LockBroadcastSend(b)
    \/ \E b \in Broadcasters : LockBroadcastFinish(b)

SpecLock == InitHubOnly /\ [][NextLock]_vars

\* how often websocket c occurs in the lists of the table
Occurrences(c) ==
    Cardinality({<< j, i >> \in (DOMAIN active_connections)
                                   \X (1..MaxHubChannels) :
                    /\ i <= Len(active_connections[j])
                    /\ active_connections[j][i] = c})

\* the table is what the completed connects, disconnects and drops make it:
\* a websocket is listed at most once and only under its own job, a
\* connected websocket whose sends succeed is listed, one that did not
\* connect or has disconnected is not; a broadcast sends to the websockets
\* that were subscribed when it got the lock, in their order
AsIfOneAtATime ==
    /\ \A c \in DOMAIN chan :
          /\ Occurrences(c) <= 1
          /\ chan[c].st = "open" => Occurrences(c) = 1
          /\ chan[c].st \in {"new", "connecting", "closed"}
                => Occurrences(c) = 0
          /\ Occurrences(c) = 1
                => InList(Subscribed(active_connections, chan[c].job), c)
    /\ \A b \in Broadcasters :
          LET bc == hubProc.bc[b]
          IN  /\ Len(bc.sends) <= Len(bc.targets)
              /\ \A i \in 1..Len(bc.sends) : bc.sends[i].ws = bc.targets[i]
              /\ (bc.pc = "done") => Len(bc.sends) = Len(bc.targets)
              /\ (bc.pc = "sending") <=> hubProc.lock = b

\* C28: the hub behaves as if connect, disconnect and broadcast ran one at
\* a time: while a broadcast holds the lock no step changes the table, a
\* broadcast sends to exactly the websockets subscribed when it got the
\* lock, and no subscription is lost or duplicated.
C28_HubCallsAreSerialized ==
    [][/\ (hubProc.lock # 0 /\ hubProc'.lock # 0)
             => active_connections' = active_connections
       /\ AsIfOneAtATime']_vars

\* a broadcast holds the lock in the middle of its sends while another
\* broadcast and the disconnect of a subscribed websocket wait for it
C28_Witness ==
    /\ hubProc.lock # 0
    /\ \E b \in Broadcasters :
          /\ hubProc.bc[b].pc = "sending"
          /\ Len(hubProc.bc[b].sends) = 1
          /\ Len(hubProc.bc[b].targets) = 2
          /\ \E a \in Broadcasters : hubProc.bc[a].pc = "waiting"
          /\ \E c \in DOMAIN chan :
                /\ chan[c].st = "closing"
                /\ InList(hubProc.bc[b].targets, c)

\* ------------------------------------------------------------------------
\* api/websocket.py  websocket_endpoint: the loop of one subscriber
\* ------------------------------------------------------------------------
MaxLoopTurns == 2
\* what receive_text can return
InboundTexts == {"ping", "hello"}
\* the JSON text {"type": "keepalive"} and the plain text "pong"
KeepaliveMsg == [type |-> "keepalive"]
PongMsg == [type |-> "pong"]

notLoopVars ==
    << storage, nextId, processor, regVars, storeVars, pipeVars, svc,
       background, lastBroadcast, sent, writes, outcome, pipelineRuns,
       extVars >>

\* one turn of the loop that leaves the loop running
LoopTurn(c, event, delivered) ==
    /\ chan' = [chan EXCEPT ![c].turns = @ + 1, ![c].last = event]
    /\ inbox' = [inbox EXCEPT ![c] = @ \o delivered]
    /\ UNCHANGED active_connections

\* one turn of the loop that leaves it: finally, disconnect
LoopExit(c, event, why) ==
    /\ chan' = [chan EXCEPT ![c].turns = @ + 1, ![c].last = event,
                            ![c].st = "closed", ![c].exit = why]
    /\ active_connections' = disconnect(active_connections, c, chan[c].job)
    /\ UNCHANGED inbox

\* the timeout branch leaving the loop also after a keepalive that was sent
WsTimeout_always_breaks(c) ==
    /\ chan[c].st \in {"open", "dead"}
    /\ chan[c].turns < MaxLoopTurns
    /\ chan' = [chan EXCEPT ![c].turns = @ + 1, ![c].last = "timeout",
                            ![c].st = "closed",
                            ![c].exit = "keepalive_failed"]
    /\ active_connections' = disconnect(active_connections, c, chan[c].job)
    /\ inbox' = [inbox EXCEPT ![c] =
                    IF chan[c].st = "open"
                    THEN Append(@, [job |-> chan[c].job, msg |-> KeepaliveMsg])
                    ELSE @]
    /\ UNCHANGED notLoopVars

\* lines 218, 224-230: no text arrived within 30 seconds; the keepalive is
\* sent, and a send that raises breaks the loop
WsTimeout(c) ==
    /\ chan[c].st \in {"open", "dead"}
    /\ chan[c].turns < MaxLoopTurns
    /\ IF chan[c].st = "open"
       THEN LoopTurn(c, "timeout",
                     << [job |-> chan[c].job, msg |-> KeepaliveMsg] >>)
       ELSE LoopExit(c, "timeout", "keepalive_failed")
    /\ UNCHANGED notLoopVars

\* lines 218-222: a text arrived; "ping" is answered with "pong", and a
\* send_text that raises is caught by `except Exception`, outside the loop
WsReceive(c, data) ==
    /\ chan[c].st \in {"open", "dead"}
    /\ chan[c].turns < MaxLoopTurns
    /\ IF data # "ping"
       THEN LoopTurn(c, data, << >>)
       ELSE IF chan[c].st = "open"
       THEN LoopTurn(c, data, << [job |-> chan[c].job, msg |-> PongMsg] >>)
       ELSE LoopExit(c, data, "exception")
    /\ UNCHANGED notLoopVars

NextLoop ==
    \/ \E c \in HubChannels, j \in HubJobIds : WsConnect(c, j)
    \/ \E c \in HubChannels : WsPeerGone(c)
    \/ \E c \in HubChannels : WsTimeout(c)
    \/ \E c \in HubChannels, data \in InboundTexts : WsReceive(c, data)
    \/ \E c \in HubChannels : WsDisconnect(c)

SpecLoop == InitHubOnly /\ [][NextLoop]_vars

\* websocket c went through the timeout branch in this step
TimedOut(c) ==
    chan'[c].turns = chan[c].turns + 1 /\ chan'[c].last = "timeout"

\* websocket c received "ping" in this step
Pinged(c) ==
    chan'[c].turns = chan[c].turns + 1 /\ chan'[c].last = "ping"

C31_DiscoverySkipsMalformed ==
    [][\A listing \in DirListings :
          (~discovered /\ Discover(TRUE, listing)) =>
              /\ discovered'
              /\ discoverCalls'[Len(discoverCalls')] = "scanned"
              /\ \A i \in 1..Len(listing) :
                     listing[i].loads =>
                         /\ InList(reg_extensions', listing[i].name)
                         /\ listing[i].providers # << >> =>
                                get_providers(reg_providers',
                                              listing[i].name)
                                    = listing[i].providers]_vars

\* C32: a job whose start-processing request was accepted eventually has
\* the status COMPLETED or FAILED, whatever happens to the run after the
\* acceptance: a failed write of the output file, a failed send, or the
\* cancellation of the task running it.
C32_AcceptedJobTerminates ==
    \A j \in JobIds :
        (\E t \in SvcTasks : svc[t].job = j /\ svc[t].pc = "progress10")
            ~> (/\ j \in DOMAIN storage
                /\ storage[j].status \in {COMPLETED, FAILED})

\* ------------------------------------------------------------------------
\* repositories/job_repository.py  one caller, both repositories
\* ------------------------------------------------------------------------
\* The same program is run against an InMemoryJobRepository and against a
\* RedisJobRepository.  twin.objects are the Job objects of the run on the
\* in-memory repository and twin.names the caller's variables, each naming
\* one of them; twin.copies are the caller's variables of the run on
\* Redis, where every variable holds an object of its own.
MaxHandles == 2
Handles == 1..Len(twin.names)

\* the reference InMemoryJobRepository keeps for the object at index n
Ref(n) == [job_id |-> twin.objects[n].job_id, ref |-> n]

\* the records of each repository, as get_by_id returns them
MemoryRecords ==
    [j \in DOMAIN twin._storage |-> twin.objects[twin._storage[j].ref]]
RedisRecords ==
    RepoJobs([kind |-> "redis", _storage |-> << >>], twin.redis)

\* every variable but twin
notTwinVars ==
    << storage, nextId, processor, regVars, storeVars, svc, background,
       hubVars, lastBroadcast, sent, writes, outcome, pipelineRuns, extVars,
       stageRun, procRun, hubProc, race >>

\* one method called on both repositories with the same arguments
TwinCall(op, job_id, m, r, retM, retR) ==
    /\ twin' = [twin EXCEPT !._storage = m._storage, !.redis = r.redis,
                            !.last = [op |-> op, id |-> job_id,
                                      memory |-> retM, redis |-> retR]]
    /\ UNCHANGED notTwinVars

\* job = Job(job_id=..., ...): the caller builds a Job object
TwinBuild(job) ==
    /\ Len(twin.names) < MaxHandles
    /\ twin' = [twin EXCEPT !.objects = Append(@, job),
                            !.names = Append(@, Len(twin.objects) + 1),
                            !.copies = Append(@, job)]
    /\ UNCHANGED notTwinVars

\* job.status = status, on an object the caller holds
TwinAssign(h, status) ==
    /\ twin.copies[h].status # Enum(status)
    /\ twin' = [twin EXCEPT !.objects[twin.names[h]].status = Enum(status),
                            !.copies[h].status = Enum(status),
                            !.last = [op |-> "assign", id |-> BadId,
                                      memory |-> << >>, redis |-> << >>]]
    /\ UNCHANGED notTwinVars

\* repository.create(job)
TwinCreate(h) ==
    LET m == repo_create([kind |-> "memory", _storage |-> twin._storage],
                         << >>, Ref(twin.names[h]))
        r == repo_create([kind |-> "redis", _storage |-> << >>],
                         twin.redis, twin.copies[h])
    IN  TwinCall("create", twin.copies[h].job_id, m, r,
                 << m.ret >>, << r.ret >>)

\* repository.update(job)
TwinUpdate(h) ==
    LET m == repo_update([kind |-> "memory", _storage |-> twin._storage],
                         << >>, Ref(twin.names[h]))
        r == repo_update([kind |-> "redis", _storage |-> << >>],
                         twin.redis, twin.copies[h])
    IN  TwinCall("update", twin.copies[h].job_id, m, r,
                 << m.ret >>, << r.ret >>)

\* repository.delete(job_id)
TwinDelete(j) ==
    LET m == repo_delete([kind |-> "memory", _storage |-> twin._storage],
                         << >>, j)
        r == repo_delete([kind |-> "redis", _storage |-> << >>],
                         twin.redis, j)
    IN  TwinCall("delete", j, m, r, << m.ret >>, << r.ret >>)

\* repository.exists(job_id)
TwinExists(j) ==
    LET m == repo_exists([kind |-> "memory", _storage |-> twin._storage],
                         << >>, j)
        r == repo_exists([kind |-> "redis", _storage |-> << >>],
                         twin.redis, j)
    IN  TwinCall("exists", j, m, r, << m.ret >>, << r.ret >>)

\* job = repository.get_by_id(job_id): the in-memory repository hands out
\* the object it keeps, Redis a new object built by Job.from_dict
TwinGet(j) ==
    LET retM == IF j \in DOMAIN MemoryRecords
                THEN << MemoryRecords[j] >> ELSE << >>
        retR == IF j \in DOMAIN RedisRecords
                THEN << RedisRecords[j] >> ELSE << >>
        kept == /\ retM # << >>
                /\ retR # << >>
                /\ Len(twin.names) < MaxHandles
    IN  /\ twin' = [twin EXCEPT
                       !.names = IF kept
                                 THEN Append(@, twin._storage[j].ref)
                                 ELSE @,
                       !.copies = IF kept THEN Append(@, retR[1]) ELSE @,
                       !.last = [op |-> "get_by_id", id |-> j,
                                 memory |-> retM, redis |-> retR]]
        /\ UNCHANGED notTwinVars

NextTwin ==
    \/ \E j \in StoreIds : \E job \in Jobs(j) : TwinBuild(job)
    \/ \E h \in Handles, status \in {PROCESSING, FAILED} :
          TwinAssign(h, status)
    \/ \E h \in Handles : TwinCreate(h)
    \/ \E h \in Handles : TwinUpdate(h)
    \/ \E j \in StoreIds : TwinDelete(j)
    \/ \E j \in StoreIds : TwinExists(j)
    \/ \E j \in StoreIds : TwinGet(j)

\* both backends at hand: a Redis URL configured and the server answering
InitTwin ==
    /\ InitRepo
    /\ redisUp
    /\ repo.redis_url = RedisUrl

SpecTwin == InitTwin /\ [][NextTwin]_vars

\* C33: after every call of a program run on both repositories, the two
\* calls have returned the same result and the two repositories hold the
\* same records, also when the program has assigned to a field of a Job
\* object it passed to create or received from get_by_id.
C33_RepositoriesAgree ==
    /\ twin.last.memory = twin.last.redis
    /\ MemoryRecords = RedisRecords

\* ------------------------------------------------------------------------
\* delete and exists: JobStorage, JobService.delete_job, the repository
\* ------------------------------------------------------------------------
\* JobService.delete_job, lines 304-323: False when get_job finds nothing,
\* else the files are removed (a failure is only logged) and the answer
\* is the one of storage.delete_job
JobService_delete_job(st, job_id) ==
    IF JobStorage_get_job(st, job_id).ret = "absent"
    THEN [memory |-> st.memory, redis |-> st.redis, ret |-> "false"]
    ELSE JobStorage_delete_job(st, job_id)

\* JobStorage and the request's repository side by side, with the Redis
\* server answering and no key running out of time
NextDelete ==
    \/ \E j \in StoreIds : StoreCreate(j)
    \/ \E j \in StoreIds : StoreGet(j)
    \/ \E j \in StoreIds : StoreSetResult(j)
    \/ \E j \in StoreIds : StoreDelete(j)
    \/ \E j \in StoreIds : StoreExists(j)
    \/ RepoRequest
    \/ \E j \in StoreIds : \E job \in Jobs(j) : RepoCreate(job)
    \/ \E j \in StoreIds : RepoGet(j)
    \/ \E j \in StoreIds : RepoDelete(j)
    \/ \E j \in StoreIds : RepoExists(j)

SpecDelete == InitStore /\ [][NextDelete]_vars

\* a record with the id is kept: in the backend of the JobStorage, in the
\* repository
Stored(j) == IF use_redis THEN j \in DOMAIN redis ELSE j \in DOMAIN storage
Kept(j) == IF repo.kind = "redis" THEN j \in DOMAIN redis
           ELSE j \in DOMAIN repo._storage

\* C34: delete(id) returns true if and only if a record with the id
\* existed immediately before the call and leaves none; a record that is
\* absent stays absent until a create(id); exists(id) is true exactly when
\* get(id) returns a record.  For JobStorage, JobService.delete_job and the
\* in-memory repository, for calls that return.
C34_DeleteAndExists ==
    [][\A j \in StoreIds :
          LET returned == storeOp'.ret # "raised"
              true == storeOp'.ret = "true"
          IN  /\ (StoreDelete(j) /\ returned) =>
                     /\ true <=> Stored(j)
                     /\ ~Stored(j)'
              /\ (RepoDelete(j) /\ returned) =>
                     /\ true <=> Kept(j)
                     /\ ~Kept(j)'
              /\ (~Stored(j) /\ Stored(j)') => StoreCreate(j)
              /\ (~Kept(j) /\ Kept(j)') =>
                     \E job \in Jobs(j) : RepoCreate(job)
              /\ (StoreExists(j) /\ returned) => (true <=> Stored(j))
              /\ (RepoExists(j) /\ returned) => (true <=> Kept(j))
              /\ (StoreGet(j) /\ returned) =>
                     ((storeOp'.ret = "found") <=> Stored(j))
              /\ (RepoGet(j) /\ returned) =>
                     ((storeOp'.ret = "found") <=> Kept(j))
              /\ JobService_delete_job(ThisStore, j)
                     = JobStorage_delete_job(ThisStore, j)]_vars

\* a delete_job that answered True on a record stored in Redis, after
\* which the id is gone
C34_Witness ==
    /\ use_redis
    /\ storeOp.op = "delete_job"
    /\ storeOp.ret = "true"
    /\ storeOp.id \notin DOMAIN redis
    /\ redis # << >>

\* ------------------------------------------------------------------------
\* extensions/hooks.py  hooks registered for different extension classes
\* ------------------------------------------------------------------------
\* extension_class._hooks as the class named e resolves it: no extension
\* class assigns _hooks, hasattr(extension_class, "_hooks") of hooks.py 69
\* is true by inheritance, so every class reads the dict of base.py 60
class_hooks(table, e) == table

\* @hook(e, stage, timing, priority) applied to a handler that returns;
\* the handler remembers the class it was registered for
HookRegisterFor(e, hook_key, priority) ==
    /\ hooks.next <= MaxHooks
    /\ hooks' = [next |-> hooks.next + 1,
                 table |-> hook(class_hooks(hooks.table, e), hook_key,
                                priority,
                                [id |-> hooks.next, raises |-> FALSE,
                                 ext |-> e])]
    /\ UNCHANGED << storage, nextId, processor, regVars, storeVars, pipeVars,
                    svc, background, hubVars, lastBroadcast, sent, writes,
                    outcome, pipelineRuns, reg_providers, available,
                    selection, hookRun >>

NextHookOwners ==
    \/ \E e \in ExtNames, k \in HookKeys, p \in StagePriorities :
          HookRegisterFor(e, k, p)
    \/ \E e \in ExtNames, k \in HookKeys : ExecuteHooks(e, k)

SpecHookOwners == InitHooks /\ [][NextHookOwners]_vars

\* the classes the handler with this id was registered for
OwnersOf(table, id) ==
    {table[x[1]][x[2]].func.ext :
        x \in {y \in (DOMAIN table) \X (1..MaxHooks) :
                  /\ y[2] <= Len(table[y[1]])
                  /\ table[y[1]][y[2]].func.id = id}}

\* C35: execute_hooks of an extension class runs only handlers the hook
\* decorator registered for that class, and registering a handler for
\* one class leaves the hook table of every other class as it was.
C35_HooksBelongToTheirClass ==
    [][/\ hookRun'.called =>
              \A i \in 1..Len(hookRun'.ran) :
                  OwnersOf(hooks'.table, hookRun'.ran[i]) = {hookRun'.ext}
       /\ \A e \in ExtNames, k \in HookKeys, p \in StagePriorities :
              HookRegisterFor(e, k, p) =>
                  \A b \in ExtNames \ {e} :
                      class_hooks(hooks'.table, b)
                          = class_hooks(hooks.table, b)]_vars

\* C36: a broadcast for a job id sends only to websockets subscribed to
\* that id at the time of the call, so a websocket subscribed to another
\* id gets nothing, and it leaves the entry of every other id as it was.
C36_BroadcastStaysWithinJob ==
    [][\A j \in HubJobIds :
          (HubBroadcastProgress(j) \/ HubBroadcastComplete(j)
               \/ HubBroadcastError(j)) =>
              /\ \A i \in 1..Len(lastBroadcast'.sends) :
                     LET c == lastBroadcast'.sends[i].ws
                     IN  /\ chan[c].job = j
                         /\ chan[c].st \in {"open", "dead"}
                         /\ InList(Subscribed(active_connections, j), c)
              /\ \A b \in HubJobIds \ {j} :
                     /\ b \in DOMAIN active_connections'
                            <=> b \in DOMAIN active_connections
                     /\ Subscribed(active_connections', b)
                            = Subscribed(active_connections, b)]_vars

\* a progress broadcast that sent to a subscriber of its job while the
\* only subscriber of another job was a websocket whose sends fail
C36_Witness ==
    /\ lastBroadcast.type = "progress"
    /\ lastBroadcast.sends # << >>
    /\ \E b \in DOMAIN active_connections :
          /\ b # lastBroadcast.job
          /\ \A i \in 1..Len(active_connections[b]) :
                 /\ chan[active_connections[b][i]].st = "dead"
                 /\ \A k \in 1..Len(lastBroadcast.sends) :
                        lastBroadcast.sends[k].ws # active_connections[b][i]

\* C37: a broadcast for a job id without a subscriber leaves the hub's
\* table as it was and reaches nobody; subscribing delivers nothing, and a
\* websocket receives a message only in the broadcast that sends it,
\* being subscribed at that time.  A websocket that subscribes after the
\* terminal notification of its job therefore receives no notification.
C37_NoReplayForLateSubscriber ==
    [][/\ \A j \in JobIds :
              (sent'[j] # sent[j]
                   /\ Subscribed(active_connections, j) = << >>) =>
                  /\ active_connections' = active_connections
                  /\ inbox' = inbox
       /\ \A c \in Channels :
              /\ \A j \in JobIds : WsConnect(c, j) => inbox'[c] = inbox[c]
              /\ inbox'[c] # inbox[c] =>
                     \E j \in JobIds :
                         /\ InList(Subscribed(active_connections, j), c)
                         /\ Len(sent'[j]) = Len(sent[j]) + 1
                         /\ inbox'[c] =
                                Append(inbox[c],
                                       [job |-> j,
                                        msg |-> sent'[j][Len(sent'[j])]])]_vars

\* a websocket subscribed to a job whose run has ended and whose terminal
\* notification went to nobody: it has received nothing
C37_Witness ==
    \E c \in Channels, t \in SvcTasks :
        /\ chan[c].st = "open"
        /\ svc[t].pc = "done"
        /\ svc[t].job = chan[c].job
        /\ svc[t].code \in {200, 500}
        /\ Terminal(chan[c].job) # {}
        /\ InList(Subscribed(active_connections, chan[c].job), c)
        /\ inbox[c] = << >>

\* ------------------------------------------------------------------------
\* storage/jobs.py  update_job of a run under way, delete_job beside it
\* ------------------------------------------------------------------------
\* Every JobStorage method is synchronous, so on the dict of one process
\* a call is one step.  With Redis the get of line 129 and the setex of
\* lines 137-141 are two commands, and another process sharing the
\* server can delete the key between them.  race.deleted are the ids whose
\* delete_job answered True with no create_job since, race.revived those
\* among them a setex wrote again.
notRaceVars ==
    << nextId, processor, svc, background, hubVars, lastBroadcast, sent,
       writes, outcome, pipelineRuns, extVars, regVars, stageRun, procRun,
       hubProc, twin >>

\* one JobStorage command carried out, and what it means for race
RaceCall(op, job_id, result, after) ==
    /\ storage' = result.memory
    /\ redis' = result.redis
    /\ storeOp' = [op |-> op, id |-> job_id, ret |-> result.ret,
                   init |-> storeOp.init]
    /\ race' = after
    /\ UNCHANGED << use_redis, redisUp, repo, live >>
    /\ UNCHANGED notRaceVars

\* storage.create_job(job_id, ...)
RaceCreate(j) ==
    RaceCall("create_job", j, JobStorage_create_job(ThisStore, j, PENDING),
             [race EXCEPT !.deleted = @ \ {j}, !.revived = @ \ {j}])

\* storage.delete_job(job_id), by a request of this or of another process
RaceDelete(j) ==
    LET result == JobStorage_delete_job(ThisStore, j)
    IN  RaceCall("delete_job", j, result,
                 IF result.ret = "true"
                 THEN [race EXCEPT !.deleted = @ \cup {j},
                                   !.revived = @ \ {j}]
                 ELSE race)

\* the record set_result would write for the job
Updated(j) ==
    set_result(Records(ThisStore), j, "result.svg", "stats", "cpu")[j]

\* set_result going on to write when get_job found nothing
RaceUpdateCall_unchecked(j) ==
    /\ race.pc = "idle"
    /\ RaceCall("set_result", j,
                IF j \in DOMAIN Records(ThisStore)
                THEN JobStorage_set_result(ThisStore, j, "result.svg",
                                           "stats", "cpu")
                ELSE JobStorage_create_job(ThisStore, j, COMPLETED),
                race)

\* the run calls storage.set_result(job_id, ...): update_job reads the
\* record (lines 129-131) and answers False when there is none; on the
\* dict it also writes, in Redis the setex is still to come
RaceUpdateCall(j) ==
    /\ race.pc = "idle"
    /\ IF j \in DOMAIN Records(ThisStore) /\ use_redis
       THEN RaceCall("get_job", j, JobStorage_get_job(ThisStore, j),
                     [race EXCEPT !.pc = "read", !.id = j,
                                  !.job = << Updated(j) >>])
       ELSE RaceCall("set_result", j,
                     JobStorage_set_result(ThisStore, j, "result.svg",
                                           "stats", "cpu"),
                     race)

\* lines 135-145: setex with the record read before, whatever became of
\* the key since; the call answers True
RaceUpdateWrite ==
    /\ race.pc = "read"
    /\ RaceCall("set_result", race.id,
                [memory |-> storage,
                 redis |-> setex(redis, race.id, TTL, race.job[1]),
                 ret |-> "true"],
                [race EXCEPT !.pc = "idle", !.id = BadId, !.job = << >>,
                             !.revived =
                                 IF race.id \in race.deleted
                                 THEN @ \cup {race.id} ELSE @])

NextRace ==
    \/ \E j \in StoreIds : RaceCreate(j)
    \/ \E j \in StoreIds : RaceDelete(j)
    \/ \E j \in StoreIds : RaceUpdateCall(j)
    \/ RaceUpdateWrite

SpecRace == InitStore /\ [][NextRace]_vars

\* C38 as claimed: once delete_job has answered True for an id and no
\* create_job for it has followed, no record with the id is stored, also
\* when an update of a run under way overlaps the delete.
C38_DeletedStaysAbsent ==
    \A j \in race.deleted : ~Stored(j)

\* C38, amended: once delete_job has answered True for an id and no
\* create_job for it has followed, a record with the id is stored only if
\* an update that had read the record before the delete wrote it back
\* after the delete; an update called after the delete answers False and
\* writes nothing.
C38_DeletedStaysAbsentUnlessOverlapped ==
    [][\A j \in StoreIds :
          /\ (j \in race'.deleted /\ Stored(j)') => j \in race'.revived
          /\ (j \in race'.revived /\ j \notin race.revived) =>
                 /\ use_redis
                 /\ race.pc = "read"
                 /\ race.id = j
                 /\ j \in race.deleted
          /\ (RaceUpdateCall(j) /\ j \in race.deleted /\ ~Stored(j)) =>
                 /\ storeOp'.ret = "false"
                 /\ ~Stored(j)'
                 /\ race'.pc = "idle"]_vars

\* set_result called for an id after its delete_job answered True: it
\* answered False and the id is still absent
C38_Witness ==
    /\ storeOp.op = "set_result"
    /\ storeOp.ret = "false"
    /\ storeOp.id \in race.deleted
    /\ ~Stored(storeOp.id)
    /\ race.revived = {}

====
